---- MODULE Spec2Model ----
(***************************************************************************)
(* aurdex: the unified package store (PackageDB), its synchronisation      *)
(* pipeline (rebuild / _ensure_database), the store connection protocol    *)
(* and the dependency resolver (DependencyResolver), from                  *)
(* src/src/aurdex/db.py and src/src/aurdex/cli.py; the details pane of the *)
(* browser, from src/src/aurdex/main.py and src/src/aurdex/aurdex.py.      *)
(*                                                                         *)
(* The specifications share the variables:                                 *)
(*   Spec         the sync pipeline, one caller                            *)
(*   SpecConn     PackageDB.connection() used by several threads           *)
(*   SpecConnFair the same with fair scheduling, for liveness              *)
(*   SpecResolve  the dependency resolver over a stored dependency graph   *)
(*   SpecResolveAny  the resolver, with any installed-provides map         *)
(*   SpecQuery    the queries over a stored set of packages                *)
(*   SpecCli      runs of the command-line entry point (cli.py main)       *)
(*   SpecLookup   package_info between sync passes of one process          *)
(*   SpecIngest   sync passes over feeds with null optional fields         *)
(*   SpecPane     the details pane of the interactive browser              *)
(***************************************************************************)
EXTENDS Integers, Sequences, FiniteSets, Bags, TLC

VARIABLES
    db,         \* the committed content of the store file (db_path)
    tx,         \* the content as seen through the open connection (uncommitted writes included)
    aur_json,   \* the downloaded feed file: NoFile or the set of its records
    pc,         \* position of the running sync call
    call,       \* the running call: [op, full, download]
    cur,        \* locals of the running call: feed and system snapshot read, aur count
    last,       \* outcome of the last completed call
    dbBefore,   \* committed content when the running call started
    nops,       \* number of calls started
    lock,       \* holder of PackageDB._db_lock (0: free)
    tpc,        \* per thread: position inside an operation using connection()
    conns,      \* threads whose sqlite3 connection is open (connected, not yet closed)
    dirty,      \* threads whose connection holds an uncommitted transaction
    tdone,      \* per thread: number of operations completed
    tleft,      \* per thread: uses of connection() the running operation still makes
    graph,      \* resolver input: per package name, the rows get_package_dependencies returns
    stored,     \* resolver input: names that have a packages row
    installed,  \* resolver input: names of installed packages (db.installed_packages)
    installed_provides, \* resolver input: <<virtual name, installed provider>> pairs
    request,    \* resolver input: the requested names
    result,     \* resolver output
    qdb,        \* query input: the store content a query reads
    query,      \* query input: the argument of the query
    answer,     \* query output
    main,       \* the run of the command-line entry point: position, flags
    memo,       \* the lru_cache of package_info: arguments |-> returned value
    ui          \* the browser: highlighted row, timer, workers, details pane

syncVars == <<db, tx, aur_json, pc, call, cur, last, dbBefore, nops>>
connVars == <<lock, tpc, conns, dirty, tdone, tleft>>
resVars  == <<graph, stored, installed, installed_provides, request, result>>
queryVars == <<qdb, query, answer>>
appVars  == <<main, memo, ui>>
vars     == <<syncVars, connVars, resVars, queryVars, appVars>>

----------------------------------------------------------------------------
(* Bounds *)

MaxOps == 3          \* sync calls (rebuild / _ensure_database) per behaviour
NThreads == 3        \* threads using the store at once
MaxThreadOps == 2    \* store operations per thread
MaxEdges == 3        \* runtime-dependency links in the stored graph
MaxHighlights == 3   \* rows the user highlights in the browser
NFair == 2           \* threads of the specification with fair scheduling

----------------------------------------------------------------------------
(* Program constants *)

SCHEMA_VERSION == 3

\* sqlite3.connect() in connection() never issues PRAGMA foreign_keys = ON,
\* so SQLite leaves foreign-key enforcement (and ON DELETE CASCADE) off.
ForeignKeysOn == FALSE

\* JSON / SQL values: <<>> is null (None, NULL), <<n>> is the number n.
Null == <<>>
Num(n) == <<n>>

\* `value or 0`
OrZero(v) == IF v = Null THEN 0 ELSE v[1]

\* The feed file: absent, or present with the records it decodes to
NoFile == [present |-> FALSE, records |-> {}]
FeedFile(f) == [present |-> TRUE, records |-> f]

----------------------------------------------------------------------------
(* Inputs: feed records, system packages *)

\* pacman versions as character sequences: [epoch:]pkgver-pkgrel
V1  == <<"1", "-", "1">>
V2  == <<"1", ":", "2", "-", "1">>

\* Feed records of the upstream snapshot (packages-meta-ext-v1.json.gz)
RecA1 == [Name |-> "a", LastModified |-> Num(1), Maintainer |-> <<"m1">>,
          OutOfDate |-> Null, NumVotes |-> Num(0), CoMaintainers |-> {},
          Depends |-> {"x"}, Groups |-> {"g"}]
RecA2 == [RecA1 EXCEPT !.LastModified = Num(2), !.Depends = {"x", "y"}, !.Groups = {}]
RecA0 == [RecA1 EXCEPT !.LastModified = Null, !.Groups = {}]
RecB1 == [RecA1 EXCEPT !.Name = "b", !.Depends = {"a"}, !.Groups = {}]
\* a with another maintainer and the same timestamp as RecA1
RecA1m == [RecA1 EXCEPT !.Maintainer = <<"m2">>, !.CoMaintainers = {"m1"}]

\* A JSON null where a list is expected
NullList == {"<null>"}

\* Records with null fields: b with every optional field null, b with a
\* timestamp and a vote count and every other optional field null, and a
\* complete c
RecB0 == [Name |-> "b", LastModified |-> Null, Maintainer |-> Null,
          OutOfDate |-> Null, NumVotes |-> Null, CoMaintainers |-> NullList,
          Depends |-> NullList, Groups |-> NullList]
RecBn == [RecB0 EXCEPT !.LastModified = Num(1), !.NumVotes = Num(0)]
RecC1 == [RecA1 EXCEPT !.Name = "c", !.Groups = {}]

\* Upstream snapshots that hold a record with null fields
DefaultedFeeds == { {RecB0}, {RecBn}, {RecBn, RecC1} }

\* The upstream snapshots a download can fetch (at most one record per name)
Feeds == { {RecA1}, {RecA2}, {RecA0}, {RecA1, RecB1}, {RecB1}, {RecA1m} }

\* pyalpm package objects: of a sync database, of the local database
PkgS1 == [name |-> "s", version |-> V1, db |-> "core", depends |-> {"x"}, groups |-> {"g"}]
PkgS2 == [name |-> "s", version |-> V2, db |-> "core", depends |-> {"y"}, groups |-> {}]
PkgSL == [name |-> "s", version |-> V1, db |-> "local", depends |-> {"x"}, groups |-> {"g"}]
PkgTL == [name |-> "t", version |-> V1, db |-> "local", depends |-> {}, groups |-> {}]

\* What pyalpm exposes: the sync databases' packages and the local database's
Systems ==
    { [sync |-> {},      local |-> {}],
      [sync |-> {PkgS1}, local |-> {}],
      [sync |-> {PkgS1}, local |-> {PkgSL, PkgTL}],
      [sync |-> {PkgS2}, local |-> {PkgTL}] }

\* An input a call has not read (yet), and one it has read
NoInput == <<>>
Read(x) == <<x>>

----------------------------------------------------------------------------
(* The relational store *)

\* A store file that does not exist
MissingStore ==
    [file |-> FALSE, corrupt |-> FALSE, user_version |-> 0, schema |-> FALSE,
     packages |-> {}, links |-> EmptyBag, groups |-> EmptyBag, status |-> "none"]

\* The four tables of a store
Tables(s) == [packages |-> s.packages, links |-> s.links, groups |-> s.groups,
              status |-> s.status]

Key(row) == <<row.name, row.source>>
Keys(rows) == { Key(r) : r \in rows }

\* A link or group row is <<name, source, link_type | "group", target>>
Owner(l) == <<l[1], l[2]>>

\* A link target: a bare name, or name=version
Target(n) == [name |-> n, ver |-> <<>>]
TargetV(n, v) == [name |-> n, ver |-> v]

\* The rows of a bag that (name, source) owns
OwnedBy(b, key) == [l \in { x \in DOMAIN b : Owner(x) = key } |-> b[l]]

\* DELETE FROM <links | package_groups> WHERE (name, source) IN keys
DeleteOwned(b, keys) == [l \in { x \in DOMAIN b : Owner(x) \notin keys } |-> b[l]]

\* DELETE FROM packages for the given keys; the links and package_groups rows of
\* a deleted package go with it only when foreign keys are enforced
DeletePackages(t, keys) ==
    [t EXCEPT !.packages = { r \in t.packages : Key(r) \notin keys },
              !.links    = IF ForeignKeysOn THEN DeleteOwned(t.links, keys) ELSE t.links,
              !.groups   = IF ForeignKeysOn THEN DeleteOwned(t.groups, keys) ELSE t.groups]

\* INSERT ... ON CONFLICT(name, source) DO UPDATE
Upsert(rows, new) == { r \in rows : Key(r) \notin Keys(new) } \cup new

\* executemany("INSERT INTO links ...") / ("INSERT INTO package_groups ...")
InsertRows(b, rowset) == b (+) SetToBag(rowset)

\* s.split(c)[0]
RECURSIVE BeforeFirst(_, _)
BeforeFirst(s, c) ==
    IF s = <<>> \/ Head(s) = c THEN <<>> ELSE <<Head(s)>> \o BeforeFirst(Tail(s), c)

\* s.split(c)[-1]
RECURSIVE AfterLast(_, _)
AfterLast(s, c) ==
    IF \E i \in 1..Len(s) : s[i] = c
    THEN AfterLast(Tail(s), c)
    ELSE s

\* version.split("-")[0].split(":")[-1]
CleanVersion(v) == AfterLast(BeforeFirst(v, "-"), ":")

\* Link rows without the self-identity Provides entry
PrepareLinkDataNoSelf(rec, source) ==
    { <<rec.Name, source, "Depends", d>> : d \in rec.Depends }
    \cup { <<rec.Name, source, "Provides", p>> : p \in rec.Provides }

\* _prepare_link_data: rec is [Name, Version, Depends, Provides]
PrepareLinkData(rec, source) ==
    LET provides == IF source # "aur" /\ rec.Version # <<>>
                    THEN rec.Provides \cup {TargetV(rec.Name, CleanVersion(rec.Version))}
                    ELSE rec.Provides
    IN  { <<rec.Name, source, "Depends", d>> : d \in rec.Depends }
        \cup { <<rec.Name, source, "Provides", p>> : p \in provides }

\* _prepare_group_data
PrepareGroupData(rec, source) == { <<rec.Name, source, "group", g>> : g \in rec.Groups }

\* `if items_val is None: continue` / `if grp_list:`: a null list gives no rows
Items(v) == IF v = NullList THEN {} ELSE v

\* The dict _ingest_aur_full hands to the _prepare_* functions for a feed record
AurRec(r) == [Name |-> r.Name, Version |-> <<>>,
              Depends |-> { Target(d) : d \in Items(r.Depends) }, Provides |-> {},
              Groups |-> Items(r.Groups)]

\* What one ingestion writes for a package besides its row (kept with the row as
\* a history field `origin`: it is no column of the table)
Origin(rec, source) ==
    [links |-> PrepareLinkData(rec, source), groups |-> PrepareGroupData(rec, source)]

\* _prepare_package_row_data
PreparePackageRowData(r, source) ==
    [name |-> r.Name, source |-> source, version |-> <<>>,
     last_modified |-> r.LastModified, maintainer |-> r.Maintainer,
     out_of_date |-> r.OutOfDate, num_votes |-> r.NumVotes,
     comaintainers |-> r.CoMaintainers, origin |-> Origin(AurRec(r), source)]

\* The dict _insert_repo_pkg builds for a pyalpm package
RepoRec(p) == [Name |-> p.name, Version |-> p.version,
               Depends |-> { Target(d) : d \in p.depends }, Provides |-> {},
               Groups |-> p.groups]

\* _prepare_repo_pkg_data
PrepareRepoPkgData(p, source) ==
    [name |-> p.name, source |-> source, version |-> p.version,
     last_modified |-> Null, maintainer |-> Null, out_of_date |-> Null,
     num_votes |-> Null, comaintainers |-> {}, origin |-> Origin(RepoRec(p), source)]

\* needs_update in _ingest_aur_full: no stored row, or one of the compared
\* fields differs
NeedsUpdate(rec, rows) ==
    LET hit == { r \in rows : r.source = "aur" /\ r.name = rec.Name }
    IN  \/ hit = {}
        \/ \E r \in hit :
              \/ rec.LastModified # Num(OrZero(r.last_modified))
              \/ rec.Maintainer # r.maintainer
              \/ rec.OutOfDate # r.out_of_date
              \/ rec.NumVotes # Num(OrZero(r.num_votes))
              \/ rec.CoMaintainers # r.comaintainers

\* The co-maintainer comparison is reached (the four fields before it are
\* equal) and one of its sides is null: sorted(None) raises TypeError
ComparisonRaises(rec, rows) ==
    \E r \in { q \in rows : q.source = "aur" /\ q.name = rec.Name } :
        /\ rec.LastModified = Num(OrZero(r.last_modified))
        /\ rec.Maintainer = r.maintainer
        /\ rec.OutOfDate = r.out_of_date
        /\ rec.NumVotes = Num(OrZero(r.num_votes))
        /\ (rec.CoMaintainers = NullList \/ r.comaintainers = NullList)

\* The records _ingest_aur_full re-ingests
PackagesToUpdate(t, records) == { r \in records : NeedsUpdate(r, t.packages) }

\* Writes of the aur rows: upsert the rows, insert their links and groups
InsertAur(t, upd) ==
    [t EXCEPT
       !.packages = Upsert(t.packages, { PreparePackageRowData(r, "aur") : r \in upd }),
       !.links    = InsertRows(t.links,
                      UNION { PrepareLinkData(AurRec(r), "aur") : r \in upd }),
       !.groups   = InsertRows(t.groups,
                      UNION { PrepareGroupData(AurRec(r), "aur") : r \in upd })]

\* _ingest_aur_full on the decoded records, up to (not including) its commit
IngestAurFull(t, records) ==
    LET names  == { r.Name : r \in records }
        gone   == { Key(r) : r \in { q \in t.packages :
                                      q.source = "aur" /\ q.name \notin names } }
        t1     == DeletePackages([t EXCEPT !.status = "pending"], gone)
        upd    == PackagesToUpdate(t1, records)
        t2     == IF upd # {} THEN InsertAur(t1, upd) ELSE t1
    IN  [store |-> [t2 EXCEPT !.status = "complete"], count |-> Cardinality(upd),
         raised |-> \E r \in records : ComparisonRaises(r, t1.packages)]

\* _get_current_system_packages: sync packages, then local ones no sync db holds
CurrentSystemPackages(sys) ==
    sys.sync \cup { p \in sys.local : p.name \notin { q.name : q \in sys.sync } }

Triple(p) == <<p.name, p.version, p.db>>

\* _insert_repo_pkg
InsertRepoPkg(t, data) ==
    LET keys == { <<p.name, p.db>> : p \in data }
    IN  [t EXCEPT
           !.packages = Upsert(t.packages, { PrepareRepoPkgData(p, p.db) : p \in data }),
           !.links    = InsertRows(DeleteOwned(t.links, keys),
                          UNION { PrepareLinkData(RepoRec(p), p.db) : p \in data }),
           !.groups   = InsertRows(DeleteOwned(t.groups, keys),
                          UNION { PrepareGroupData(RepoRec(p), p.db) : p \in data })]

\* _ingest_repo
IngestRepo(t, sys) ==
    LET data == CurrentSystemPackages(sys)
    IN  IF data # {} THEN InsertRepoPkg(t, data) ELSE t

\* _update_repo_incrementally
UpdateRepoIncrementally(t, sys) ==
    LET current == CurrentSystemPackages(sys)
        stored_ == { <<r.name, r.version, r.source>> :
                        r \in { q \in t.packages : q.source # "aur" } }
        toAdd   == { p \in current : Triple(p) \notin stored_ }
        toDel   == { Key(r) : r \in { q \in t.packages :
                        /\ q.source # "aur"
                        /\ <<q.name, q.version, q.source>> \notin
                              { Triple(p) : p \in current } } }
        t1      == DeletePackages(t, toDel)
    IN  IF current = {} THEN t
        ELSE IF toAdd # {} THEN InsertRepoPkg(t1, toAdd) ELSE t1

\* A schema script that leaves out "PRAGMA user_version"
RecreateSchemaNoVersion(t) ==
    [file |-> TRUE, corrupt |-> FALSE, user_version |-> 0, schema |-> TRUE,
     packages |-> {}, links |-> EmptyBag, groups |-> EmptyBag, status |-> "none"]

\* search_by_provides(token): the owners of the Provides links whose target is
\* the token's name, bare or followed by "=" and anything
SearchByProvides(t, token) ==
    { Owner(l) : l \in { x \in DOMAIN t.links :
                            x[3] = "Provides" /\ x[4].name = token.name } }

\* A schema script that creates what is missing and drops nothing: the rows of a
\* readable store survive it
RecreateSchemaKeepRows(t) ==
    IF t.file /\ ~t.corrupt /\ t.schema
    THEN [t EXCEPT !.user_version = SCHEMA_VERSION]
    ELSE [file |-> TRUE, corrupt |-> FALSE, user_version |-> SCHEMA_VERSION, schema |-> TRUE,
          packages |-> {}, links |-> EmptyBag, groups |-> EmptyBag, status |-> "none"]

\* The two executescript calls of _rebuild: drop everything, run the DDL
RecreateSchema(t) ==
    [file |-> TRUE, corrupt |-> FALSE, user_version |-> SCHEMA_VERSION, schema |-> TRUE,
     packages |-> {}, links |-> EmptyBag, groups |-> EmptyBag, status |-> "none"]

\* sqlite3.connect creates the file when it is missing
Connect(s) == IF s.file THEN s ELSE [s EXCEPT !.file = TRUE]

\* A validity test that does not read build_status
RebuildRequiredNoStatus(s) ==
    \/ ~s.file
    \/ s.corrupt
    \/ s.user_version # SCHEMA_VERSION
    \/ ~s.schema

\* rebuild_required as _ensure_database computes it
RebuildRequired(s) ==
    \/ ~s.file
    \/ s.corrupt
    \/ s.user_version # SCHEMA_VERSION
    \/ ~s.schema
    \/ s.status # "complete"

----------------------------------------------------------------------------
(* The sync pipeline: rebuild(full, download) and _ensure_database, one caller *)

\* A store written by an earlier release (other schema version)
OldStore ==
    [file |-> TRUE, corrupt |-> FALSE, user_version |-> SCHEMA_VERSION - 1, schema |-> TRUE,
     packages |-> {}, links |-> EmptyBag, groups |-> EmptyBag, status |-> "complete"]

\* A file that is no SQLite database
CorruptStore == [MissingStore EXCEPT !.file = TRUE, !.corrupt = TRUE]

\* A store left by an interrupted build: schema created, build_status never set
InterruptedStore == [OldStore EXCEPT !.user_version = SCHEMA_VERSION, !.status = "none"]

InitialStores == {MissingStore, OldStore, CorruptStore, InterruptedStore}

NoCall == [op |-> "none", full |-> FALSE, download |-> FALSE]
NoLocals == [feed |-> NoInput, sys |-> NoInput, count |-> 0]
NoOutcome == [op |-> "none", full |-> FALSE, ok |-> FALSE, cause |-> "none",
              rebuilt |-> FALSE, count |-> 0, feed |-> NoInput, sys |-> NoInput,
              streak |-> 0, reversioned |-> FALSE]

\* The number of _ensure_database calls in a row that returned normally, this one included
Streak(op, ok) ==
    IF op = "ensure" /\ ok
    THEN (IF last.op = "ensure" /\ last.ok THEN last.streak ELSE 0) + 1
    ELSE 0

\* The store can be read and holds the schema
Usable(s) == s.file /\ ~s.corrupt /\ s.schema

\* The call changed the version of a system package the store already held
Reversioned(before, after) ==
    \E r \in before.packages, q \in after.packages :
        r.source # "aur" /\ Key(r) = Key(q) /\ r.version # q.version

\* The call ends: its result is recorded, the connection is closed (what was not
\* committed is rolled back)
Finish(ok, cause, committed) ==
    /\ last' = [op |-> call.op, full |-> call.full, ok |-> ok, cause |-> cause,
                rebuilt |-> call.full, count |-> IF ok THEN cur.count ELSE 0,
                feed |-> cur.feed, sys |-> cur.sys, streak |-> Streak(call.op, ok),
                reversioned |-> Reversioned(dbBefore, committed)]
    /\ db' = committed
    /\ tx' = committed
    /\ pc' = "idle"
    /\ call' = NoCall
    /\ cur' = NoLocals
    /\ dbBefore' = committed

\* rebuild(full, download) is called (cli.py main, or any caller)
RebuildStart(full, download) ==
    /\ pc = "idle"
    /\ nops < MaxOps
    /\ nops' = nops + 1
    /\ call' = [op |-> "rebuild", full |-> full, download |-> download]
    /\ cur' = NoLocals
    /\ dbBefore' = db
    /\ pc' = IF download THEN "download" ELSE "connect"
    /\ UNCHANGED <<db, tx, aur_json, last>>

\* _ensure_database finds the store valid: nothing to do
EnsureValid ==
    /\ pc = "idle"
    /\ nops < MaxOps
    /\ ~RebuildRequired(db)
    /\ nops' = nops + 1
    /\ dbBefore' = db
    /\ last' = [NoOutcome EXCEPT !.op = "ensure", !.ok = TRUE,
                                  !.streak = Streak("ensure", TRUE)]
    /\ UNCHANGED <<db, tx, aur_json, pc, call, cur>>

\* _ensure_database finds a rebuild required: unlinks the file and calls
\* rebuild(full=True, download=True)
EnsureRebuild ==
    /\ pc = "idle"
    /\ nops < MaxOps
    /\ RebuildRequired(db)
    /\ nops' = nops + 1
    /\ dbBefore' = db
    /\ db' = MissingStore
    /\ tx' = MissingStore
    /\ call' = [op |-> "ensure", full |-> TRUE, download |-> TRUE]
    /\ cur' = NoLocals
    /\ pc' = "download"
    /\ UNCHANGED <<aur_json, last>>

\* _download_aur_json succeeds: the file holds one of the snapshots
Download(feeds) ==
    /\ pc = "download"
    /\ \E f \in feeds : aur_json' = FeedFile(f)
    /\ pc' = "connect"
    /\ UNCHANGED <<db, tx, call, cur, last, dbBefore, nops>>

\* _download_aur_json succeeds: the file holds the current upstream snapshot
DownloadOk == Download(Feeds)

\* _download_aur_json raises (the fetch failed)
DownloadFail ==
    /\ pc = "download"
    /\ Finish(FALSE, "fetch", db)
    /\ UNCHANGED <<aur_json, nops>>

\* with self.connection(): sqlite3.connect opens (creates) the file; a full
\* rebuild then drops and recreates the schema (two autocommitted scripts)
ConnectFull ==
    /\ pc = "connect"
    /\ call.full
    /\ ~db.corrupt
    /\ db' = RecreateSchema(Connect(db))
    /\ tx' = db'
    /\ pc' = "aur"
    /\ UNCHANGED <<aur_json, call, cur, last, dbBefore, nops>>

\* an incremental update goes straight to the upstream ingest
ConnectUpdate ==
    /\ pc = "connect"
    /\ ~call.full
    /\ db' = Connect(db)
    /\ tx' = db'
    /\ pc' = "aur"
    /\ UNCHANGED <<aur_json, call, cur, last, dbBefore, nops>>

\* the first statement on a file that is no database raises sqlite3.DatabaseError
ConnectCorrupt ==
    /\ pc = "connect"
    /\ call.full
    /\ db.corrupt
    /\ Finish(FALSE, "store", db)
    /\ UNCHANGED <<aur_json, nops>>

\* _ingest_aur_full, no feed file: it downloads first, and the fetch fails
AurFetchFail ==
    /\ pc = "aur"
    /\ aur_json = NoFile
    /\ Finish(FALSE, "fetch", db)
    /\ UNCHANGED <<aur_json, nops>>

\* _ingest_aur_full, no feed file: it downloads one of the snapshots first
AurFetch(feeds) ==
    /\ pc = "aur"
    /\ aur_json = NoFile
    /\ \E f \in feeds : aur_json' = FeedFile(f)
    /\ UNCHANGED <<db, tx, pc, call, cur, last, dbBefore, nops>>

\* _ingest_aur_full, no feed file: it downloads first
AurFetchOk == AurFetch(Feeds)

\* _ingest_aur_full: gzip / json cannot decode the file
AurDecodeFail ==
    /\ pc = "aur"
    /\ aur_json # NoFile
    /\ Finish(FALSE, "decode", db)
    /\ UNCHANGED <<aur_json, nops>>

\* _ingest_aur_full: the first statement fails on a store without the schema
AurStoreFail ==
    /\ pc = "aur"
    /\ aur_json # NoFile
    /\ ~Usable(tx)
    /\ Finish(FALSE, "store", db)
    /\ UNCHANGED <<aur_json, nops>>

\* _ingest_aur_full: pending, delete, compare, upsert, complete, commit
AurIngest ==
    /\ pc = "aur"
    /\ aur_json # NoFile
    /\ Usable(tx)
    /\ LET r == IngestAurFull(tx, aur_json.records)
       IN  /\ ~r.raised
           /\ tx' = r.store
           /\ db' = r.store
           /\ cur' = [cur EXCEPT !.feed = Read(aur_json.records), !.count = r.count]
    /\ pc' = "repo"
    /\ UNCHANGED <<aur_json, call, last, dbBefore, nops>>

\* _ingest_aur_full: comparing a record with its stored row raises TypeError;
\* nothing was committed, the connection is closed
AurRecordFail ==
    /\ pc = "aur"
    /\ aur_json # NoFile
    /\ Usable(tx)
    /\ IngestAurFull(tx, aur_json.records).raised
    /\ Finish(FALSE, "record", db)
    /\ UNCHANGED <<aur_json, nops>>

\* _get_current_system_packages raises pyalpm.error (database unreadable)
RepoFail ==
    /\ pc = "repo"
    /\ Finish(FALSE, "system", db)
    /\ UNCHANGED <<aur_json, nops>>

\* _ingest_repo (full) / _update_repo_incrementally: writes, not yet committed
RepoIngest ==
    /\ pc = "repo"
    /\ \E sys \in Systems :
          /\ tx' = IF call.full THEN IngestRepo(tx, sys)
                   ELSE UpdateRepoIncrementally(tx, sys)
          /\ cur' = [cur EXCEPT !.sys = Read(sys)]
    /\ pc' = "commit"
    /\ UNCHANGED <<db, aur_json, call, last, dbBefore, nops>>

\* conn.commit() of _rebuild / _update_database; the call returns aur_count
Commit ==
    /\ pc = "commit"
    /\ Finish(TRUE, "none", tx)
    /\ UNCHANGED <<aur_json, nops>>

----------------------------------------------------------------------------
(* The dependency resolver *)

\* Package names with a packages row, and a name without one
StoredNames == {"A", "B", "C"}
AllNames == StoredNames \cup {"Z"}

\* db.package_info(name) finds a row
PackageInfo(name) == name \in stored

\* A query that reads the first link of the package only
FirstDependencyOnly(pkg) ==
    IF pkg \in DOMAIN graph /\ graph[pkg] # <<>> THEN <<Head(graph[pkg])>> ELSE <<>>

\* db.get_package_dependencies(pkg_name): the bare names of its Depends rows
GetPackageDependencies(pkg) == IF pkg \in DOMAIN graph THEN graph[pkg] ELSE <<>>

\* dep_name in self.installed_provides, and self.installed_provides[dep_name]
HasProvider(dep) == \E pr \in installed_provides : pr[1] = dep
Provider(dep) == (CHOOSE pr \in installed_provides : pr[1] = dep)[2]

\* The traversal state the DFS functions share, with three history fields:
\* entered lists the names the DFS functions were called for, hits the
\* dependencies examined while they were on the stack, raised tells that
\* visiting.remove raised KeyError (the exception ends the resolution)
NewTraversal == [visiting |-> {}, visited |-> {}, satisfied |-> {},
                 order |-> <<>>, cycles |-> <<>>,
                 entered |-> <<>>, hits |-> <<>>, raised |-> FALSE]

Elems(q) == { q[i] : i \in 1..Len(q) }

\* path.index(dep_name)
Index(path, x) == CHOOSE i \in 1..Len(path) : path[i] = x /\ \A j \in 1..(i - 1) : path[j] # x

\* A cycle record that keeps the whole stack instead of the slice from dep
CycleOfWholePath(path, dep) == Append(path, dep)

\* try: cycles.append(path[path.index(dep):]) except ValueError: path + [dep]
CycleOf(path, dep) ==
    IF dep \in Elems(path)
    THEN SubSeq(path, Index(path, dep), Len(path))
    ELSE Append(path, dep)

\* A traversal that puts a finished package in front of order
LeavePrepend(pkg, st) ==
    LET s1 == [st EXCEPT !.visiting = @ \ {pkg}]
    IN  IF st.raised THEN st
        ELSE IF pkg \notin st.visiting THEN [st EXCEPT !.raised = TRUE]
        ELSE IF pkg \in s1.visited THEN s1
        ELSE [s1 EXCEPT !.visited = @ \cup {pkg},
                        !.order = IF PackageInfo(pkg) THEN <<pkg>> \o @ ELSE @]

\* The end of _dfs_shallow / _dfs_deep: leave the stack (set.remove raises
\* KeyError for a name that is not in the set), post-order append
Leave(pkg, st) ==
    LET s1 == [st EXCEPT !.visiting = @ \ {pkg}]
    IN  IF st.raised THEN st
        ELSE IF pkg \notin st.visiting THEN [st EXCEPT !.raised = TRUE]
        ELSE IF pkg \in s1.visited THEN s1
        ELSE [s1 EXCEPT !.visited = @ \cup {pkg},
                        !.order = IF PackageInfo(pkg) THEN Append(@, pkg) ELSE @]

\* The start of _dfs_shallow / _dfs_deep: visiting.add(pkg_name)
Enter(pkg, st) ==
    [st EXCEPT !.visiting = @ \cup {pkg}, !.entered = Append(@, pkg)]

\* A traversal that skips a dependency on the stack without recording a cycle
RecordCycleNever(st, path, dep) == st

\* cycles.append(...) for a dependency that is on the stack
RecordCycle(st, path, dep) == [st EXCEPT !.cycles = Append(@, CycleOf(path, dep))]

\* History: dep was examined in state st, which the examination turned into
\* s1; when dep was on the stack, note whether a cycle was recorded for it and
\* whether a DFS function was called for it; path is the stack
Examined(dep, path, st, s1) ==
    IF dep \in st.visiting /\ ~st.raised
    THEN [s1 EXCEPT !.hits = Append(@,
            [dep |-> dep, path |-> path,
             recorded |-> Len(s1.cycles) = Len(st.cycles) + 1,
             recursed |-> \E i \in (Len(st.entered) + 1)..Len(s1.entered) :
                             s1.entered[i] = dep])]
    ELSE s1

RECURSIVE DfsShallow(_, _, _), ShallowDeps(_, _, _)

\* The loop over deps of _dfs_shallow
ShallowDeps(deps, path, st) ==
    IF deps = <<>> \/ st.raised THEN st
    ELSE LET dep == Head(deps)
             s1  == IF dep \in installed
                    THEN [st EXCEPT !.satisfied = @ \cup {dep}]
                    ELSE IF HasProvider(dep)
                    THEN [st EXCEPT !.satisfied = @ \cup {Provider(dep)}]
                    ELSE IF dep \in st.visiting
                    THEN RecordCycle(st, path, dep)
                    ELSE IF dep \notin st.visited
                    THEN DfsShallow(dep, path, st)
                    ELSE st
         IN  ShallowDeps(Tail(deps), path, Examined(dep, path, st, s1))

\* _dfs_shallow(pkg_name, ..., path, ...)
DfsShallow(pkg, path, st) ==
    Leave(pkg, ShallowDeps(GetPackageDependencies(pkg), Append(path, pkg),
                           Enter(pkg, st)))

RECURSIVE DfsDeep(_, _, _), DeepDeps(_, _, _)

\* A satisfied dependency in _dfs_deep: expanded the first time it is met
DeepSatisfied(name, path, st) ==
    IF name \in st.satisfied THEN st
    ELSE LET s1 == [st EXCEPT !.satisfied = @ \cup {name}]
         IN  IF name \notin s1.visited THEN DfsDeep(name, path, s1) ELSE s1

\* A loop that ends at the first satisfied dependency
DeepDepsStopAtSatisfied(deps, path, st) ==
    IF deps = <<>> \/ st.raised THEN st
    ELSE LET dep == Head(deps)
         IN  IF dep \in installed THEN DeepSatisfied(dep, path, st)
             ELSE IF HasProvider(dep) THEN DeepSatisfied(Provider(dep), path, st)
             ELSE DeepDeps(Tail(deps), path,
                           IF dep \in st.visiting THEN RecordCycle(st, path, dep)
                           ELSE IF dep \notin st.visited THEN DfsDeep(dep, path, st)
                           ELSE st)

\* The loop over deps of _dfs_deep
DeepDeps(deps, path, st) ==
    IF deps = <<>> \/ st.raised THEN st
    ELSE LET dep == Head(deps)
             s1  == IF dep \in installed
                    THEN DeepSatisfied(dep, path, st)
                    ELSE IF HasProvider(dep)
                    THEN DeepSatisfied(Provider(dep), path, st)
                    ELSE IF dep \in st.visiting
                    THEN RecordCycle(st, path, dep)
                    ELSE IF dep \notin st.visited
                    THEN DfsDeep(dep, path, st)
                    ELSE st
         IN  DeepDeps(Tail(deps), path, Examined(dep, path, st, s1))

\* _dfs_deep(pkg_name, ..., path, ...)
DfsDeep(pkg, path, st) ==
    Leave(pkg, DeepDeps(GetPackageDependencies(pkg), Append(path, pkg),
                        Enter(pkg, st)))

\* The loop over packages_to_resolve of resolve_dependency_tree_*
RECURSIVE Roots(_, _, _)
Roots(names, deep, st) ==
    IF names = <<>> \/ st.raised THEN st
    ELSE LET name == Head(names)
             s1   == IF name \in installed
                     THEN [st EXCEPT !.satisfied = @ \cup {name}]
                     ELSE IF HasProvider(name)
                     THEN [st EXCEPT !.satisfied = @ \cup {Provider(name)}]
                     ELSE st
             s2   == IF name \in s1.visited THEN s1
                     ELSE IF deep THEN DfsDeep(name, <<>>, s1)
                     ELSE DfsShallow(name, <<>>, s1)
         IN  Roots(Tail(names), deep, s2)

\* A final order that keeps the installed packages the traversal visited
FinalOrderUnfiltered(order) == order

\* final_order: the entries of order that package_info finds and are not installed
RECURSIVE FinalOrder(_)
FinalOrder(order) ==
    IF order = <<>> THEN <<>>
    ELSE (IF PackageInfo(Head(order)) /\ Head(order) \notin installed
          THEN <<Head(order)>> ELSE <<>>) \o FinalOrder(Tail(order))

\* The result; entered, hits and raised are the history of the traversal (a
\* resolution that raised returns nothing)
NoResult == [mode |-> "none", found |-> FALSE, order |-> <<>>, cycles |-> <<>>,
             satisfied |-> {}, visited |-> {}, entered |-> <<>>, hits |-> <<>>,
             raised |-> FALSE]

\* What a resolution leaves of a traversal
Outcome(mode, st) ==
    IF st.raised
    THEN [NoResult EXCEPT !.mode = mode, !.found = TRUE, !.raised = TRUE,
                          !.entered = st.entered, !.hits = st.hits]
    ELSE [mode |-> mode, found |-> TRUE, order |-> FinalOrder(st.order),
          cycles |-> st.cycles, satisfied |-> st.satisfied, visited |-> st.visited,
          entered |-> st.entered, hits |-> st.hits, raised |-> FALSE]

\* The requested names that have a stored package
RECURSIVE Found(_)
Found(names) ==
    IF names = <<>> THEN <<>>
    ELSE (IF PackageInfo(Head(names)) THEN <<Head(names)>> ELSE <<>>) \o Found(Tail(names))

\* A resolution that skips the names it cannot find and resolves the others
ResolveTreePartial(names, deep) ==
    Outcome(IF deep THEN "deep" ELSE "shallow", Roots(Found(names), deep, NewTraversal))

\* resolve_dependency_tree_shallow / resolve_dependency_tree_deep; visited
\* records the names the traversal went through
ResolveTree(names, deep) ==
    LET mode == IF deep THEN "deep" ELSE "shallow"
    IN  IF \E i \in 1..Len(names) : ~PackageInfo(names[i])
        THEN [NoResult EXCEPT !.mode = mode]
        ELSE Outcome(mode, Roots(names, deep, NewTraversal))

----------------------------------------------------------------------------
(* Provider resolution: get_enriched_dependencies *)

\* A dependency specifier "name<constraint>: description"
DepSpec(n, constraint, described) ==
    [name |-> n, constraint |-> constraint, described |-> described]

\* re.split(r"[<>=]", spec)[0].strip().split(":", 1)[0]
BaseName(spec) == spec.name

dep_types == <<"Depends", "MakeDepends", "CheckDepends", "OptDepends">>

\* SELECT p.* FROM links l JOIN packages p ON p.name = l.name AND p.source =
\* l.source WHERE l.link_type = kind AND (l.target = dep OR l.target LIKE dep=%)
Joined(t, kind, dep) ==
    { p \in t.packages :
        \E l \in DOMAIN t.links :
            Owner(l) = Key(p) /\ l[3] = kind /\ l[4].name = dep }

Candidate(p, type) == [name |-> p.name, source |-> p.source, resolution_type |-> type]

\* all_candidates[dep_name]: replacers, then providers, then direct matches,
\* a (name, source) taken once, in the first class that finds it
Candidates(t, dep) ==
    LET replacers == Joined(t, "Replaces", dep)
        providers == Joined(t, "Provides", dep) \ replacers
        direct    == { p \in t.packages : p.name = dep } \ (replacers \cup providers)
    IN  { Candidate(p, "replaces") : p \in replacers }
        \cup { Candidate(p, "provides") : p \in providers }
        \cup { Candidate(p, "direct") : p \in direct }

has_repo_provider(candidates) ==
    \E p \in candidates : p.resolution_type = "provides" /\ p.source # "aur"

\* valid_providers before sorting
ValidProviders(candidates) ==
    IF has_repo_provider(candidates)
    THEN { p \in candidates : ~(p.resolution_type = "replaces" /\ p.source = "aur") }
    ELSE candidates

\* The order of the package names the stores use, as Python compares strings
NameRank(n) == IF n = "r" THEN 1 ELSE IF n = "u" THEN 2 ELSE IF n = "v" THEN 3 ELSE 4

\* sort_key: (source == "aur", type_order, name), compared as tuples
type_order(type) ==
    IF type = "replaces" THEN 0 ELSE IF type = "provides" THEN 1
    ELSE IF type = "direct" THEN 2 ELSE 99

sort_key(p) == <<IF p.source = "aur" THEN 1 ELSE 0, type_order(p.resolution_type),
                 NameRank(p.name)>>

KeyLeq(a, b) ==
    \/ a[1] < b[1]
    \/ a[1] = b[1] /\ a[2] < b[2]
    \/ a[1] = b[1] /\ a[2] = b[2] /\ a[3] <= b[3]

\* valid_providers.sort(key=sort_key)
RECURSIVE SortProviders(_)
SortProviders(ps) ==
    IF ps = {} THEN <<>>
    ELSE LET first == CHOOSE p \in ps : \A q \in ps : KeyLeq(sort_key(p), sort_key(q))
         IN  <<first>> \o SortProviders(ps \ {first})

\* The entries of enriched_deps[dep_type]
EnrichedEntries(t, specs) ==
    [i \in 1..Len(specs) |->
        [name |-> BaseName(specs[i]), original_spec |-> specs[i],
         description |-> specs[i].described,
         providers |-> SortProviders(ValidProviders(Candidates(t, BaseName(specs[i]))))]]

NoEnriched == [Depends |-> <<>>, MakeDepends |-> <<>>, CheckDepends |-> <<>>,
               OptDepends |-> <<>>]

\* get_enriched_dependencies(package); {} when the package has no dependency
get_enriched_dependencies(t, package) ==
    [k \in DOMAIN NoEnriched |-> EnrichedEntries(t, package[k])]

\* A bare name as a link target or a provided name
Bare(n) == DepSpec(n, <<>>, FALSE)

DependencyTypes == {"Depends", "CheckDepends", "MakeDepends", "OptDepends"}

\* The rows of the SELECT of get_dependants: the links of a dependency type,
\* joined with their packages row, whose target is IN (all_provides)
DependantRows(t, all_provides) ==
    { l \in DOMAIN t.links :
        /\ l[3] \in DependencyTypes
        /\ l[4] \in all_provides
        /\ Owner(l) \in Keys(t.packages) }

\* get_dependants(package_name, provides): per entry of all_provides that has
\* dependants, the (name, source, link_type) of the rows whose target, cut to
\* its bare name, is that entry
get_dependants(t, package_name, provides) ==
    LET all_provides == {Bare(package_name)} \cup provides
        results == DependantRows(t, all_provides)
        under(k) == { [name |-> l[1], source |-> l[2], link_type |-> l[3]] :
                         l \in { x \in results : Bare(BaseName(x[4])) = k } }
    IN  [k \in { q \in all_provides : under(q) # {} } |-> under(k)]

\* The body of package_info(name, source): None, or the chosen packages row
\* with its links and groups. source is Null when omitted. all_rows[0] is the
\* row SQLite returns first.
PackageInfoBody(t, name, source) ==
    LET all_rows == { r \in t.packages : r.name = name }
        of(src)  == { r \in all_rows : r.source = src }
        pkg(r)   == <<[row |-> r, links |-> OwnedBy(t.links, Key(r)),
                       groups |-> OwnedBy(t.groups, Key(r))]>>
        first    == CHOOSE r \in all_rows : TRUE
    IN  IF all_rows = {} THEN Null
        ELSE IF source = <<"aur">> \/ (source = Null /\ of("aur") # {})
        THEN (IF of("aur") # {} THEN pkg(CHOOSE r \in of("aur") : TRUE) ELSE Null)
        ELSE IF source # Null /\ of(source[1]) # {}
        THEN pkg(CHOOSE r \in of(source[1]) : TRUE)
        ELSE pkg(first)

\* functools.lru_cache: the value stored for the arguments, when there is one
Memoized(key) == key \in DOMAIN memo

\* @functools.lru_cache(maxsize=8192) package_info(name, source): the value
\* returned, and the cache after the call
package_info(t, name, source) ==
    LET key == <<name, source>>
        val == IF Memoized(key) THEN memo[key] ELSE PackageInfoBody(t, name, source)
    IN  [value |-> val,
         cache |-> [k \in DOMAIN memo \cup {key} |-> IF k = key THEN val ELSE memo[k]]]

\* search: the sort key, the ORDER BY of its statement and LIMIT / OFFSET

valid_sort_columns == {"name", "popularity", "num_votes", "last_modified", "first_submitted"}

\* A fallback to the name column
SortColumnName(sort_by) == IF sort_by \in valid_sort_columns THEN sort_by ELSE "name"

\* sort_by = sort_by if sort_by in valid_sort_columns else "popularity"
SortColumn(sort_by) == IF sort_by \in valid_sort_columns THEN sort_by ELSE "popularity"

\* The value ORDER BY <column> compares, as a number: the name by its rank,
\* popularity and num_votes as the COALESCE(..., 0) result columns, the other
\* columns with NULL before every number
OrderValue(row, column) ==
    IF column = "name" THEN NameRank(row.name)
    ELSE IF column \in {"popularity", "num_votes"} THEN OrZero(row[column])
    ELSE IF row[column] = Null THEN -1 ELSE row[column][1]

\* Rows with equal sort values come in the order the statement reads them,
\* which is fixed for a store
RowLeq(a, b, column, desc) ==
    LET va == OrderValue(a, column)
        vb == OrderValue(b, column)
    IN  \/ (IF desc THEN va > vb ELSE va < vb)
        \/ va = vb /\ a.rowid <= b.rowid

RECURSIVE OrderBy(_, _, _)
OrderBy(rows, column, desc) ==
    IF rows = {} THEN <<>>
    ELSE LET first == CHOOSE r \in rows : \A q \in rows : RowLeq(r, q, column, desc)
         IN  <<first>> \o OrderBy(rows \ {first}, column, desc)

\* LIMIT limit OFFSET offset (a negative limit is no limit)
LimitOffset(q, limit, offset) ==
    LET last_ == IF limit < 0 \/ offset + limit > Len(q) THEN Len(q) ELSE offset + limit
    IN  SubSeq(q, offset + 1, last_)

\* The statement search builds without term and filters:
\* SELECT DISTINCT ... FROM packages p ORDER BY <column> <order> LIMIT ? OFFSET ?
Statement(t, column, desc, limit, offset) ==
    LimitOffset(OrderBy(t.packages, column, desc), limit, offset)

\* search(sort_by=..., sort_reverse=..., limit=..., offset=...)
search(t, sort_by, sort_reverse, limit, offset) ==
    Statement(t, SortColumn(sort_by), sort_reverse, limit, offset)

\* Idle values of the query part
NoStoreContent == [packages |-> {}, links |-> EmptyBag]
NoPackage == NoEnriched
NoAnswer == [fn |-> "none", enriched |-> NoEnriched, dependants |-> <<>>,
             info |-> Null, raised |-> FALSE, calls |-> 0, rows |-> <<>>]

\* No run of main; an empty lru_cache; a browser with nothing highlighted
NoMain == [at |-> "off", flag |-> "none", only |-> FALSE, compared |-> FALSE]
NoMemo == <<>>
NoUi == [highlighted |-> "none", timer |-> "none", workers |-> <<>>,
         pane |-> <<"none", FALSE>>, count |-> 0]

----------------------------------------------------------------------------
(* Idle values of the parts a specification does not exercise *)

Threads == 1..NThreads

SyncIdle ==
    /\ db = MissingStore /\ tx = MissingStore /\ aur_json = NoFile
    /\ pc = "idle" /\ call = NoCall /\ cur = NoLocals
    /\ last = NoOutcome /\ dbBefore = MissingStore /\ nops = 0

ConnIdle ==
    /\ lock = 0
    /\ tpc = [t \in Threads |-> "idle"]
    /\ tleft = [t \in Threads |-> 0]
    /\ conns = {}
    /\ dirty = {}
    /\ tdone = [t \in Threads |-> 0]

ResIdle ==
    /\ graph = <<>> /\ stored = {} /\ installed = {} /\ installed_provides = {}
    /\ request = <<>>
    /\ result = NoResult

QueryIdle == qdb = NoStoreContent /\ query = NoPackage /\ answer = NoAnswer

AppIdle == main = NoMain /\ memo = NoMemo /\ ui = NoUi

----------------------------------------------------------------------------
(* Specification of the sync pipeline *)

Init ==
    /\ db \in InitialStores
    /\ tx = db
    /\ dbBefore = db
    /\ aur_json = NoFile
    /\ pc = "idle" /\ call = NoCall /\ cur = NoLocals
    /\ last = NoOutcome /\ nops = 0
    /\ ConnIdle
    /\ ResIdle
    /\ QueryIdle
    /\ AppIdle

\* A step of the sync pipeline leaves the other parts alone
Sync(A) == A /\ UNCHANGED <<connVars, resVars, queryVars, appVars>>

Next ==
    \/ \E full \in BOOLEAN, download \in BOOLEAN : Sync(RebuildStart(full, download))
    \/ Sync(EnsureValid)
    \/ Sync(EnsureRebuild)
    \/ Sync(DownloadOk)
    \/ Sync(DownloadFail)
    \/ Sync(ConnectFull)
    \/ Sync(ConnectUpdate)
    \/ Sync(ConnectCorrupt)
    \/ Sync(AurFetchFail)
    \/ Sync(AurFetchOk)
    \/ Sync(AurDecodeFail)
    \/ Sync(AurStoreFail)
    \/ Sync(AurIngest)
    \/ Sync(RepoFail)
    \/ Sync(RepoIngest)
    \/ Sync(Commit)

Spec == Init /\ [][Next]_vars

----------------------------------------------------------------------------
(* Claims about the sync pipeline, checked under Spec *)

\* A sync call has returned (normally or not)
Returned == pc = "idle" /\ last.op # "none"

\* C1: after any sequence of full rebuilds and incremental updates, every links
\* row and every package_groups row has the (name, source) of an existing
\* packages row: a deleted package leaves no row referencing it.
C1_CascadeIntegrity ==
    (Returned /\ last.ok) =>
        /\ \A l \in DOMAIN db.links : Owner(l) \in Keys(db.packages)
        /\ \A g \in DOMAIN db.groups : Owner(g) \in Keys(db.packages)

\* C2: after a record for (name, source) was ingested more than once, packages
\* holds one row for (name, source), and the links and package_groups rows it
\* owns are exactly those of the latest ingested record, each once.
C2_LatestIngestionOnly ==
    (Returned /\ last.ok) =>
        \A r \in db.packages :
            /\ \A q \in db.packages : Key(q) = Key(r) => q = r
            /\ OwnedBy(db.links, Key(r)) = SetToBag(r.origin.links)
            /\ OwnedBy(db.groups, Key(r)) = SetToBag(r.origin.groups)

\* The running call is rebuild(full=False) and returns normally in this step,
\* right after a rebuild(full=True) that returned normally on the same snapshots
SecondPassOnSameSnapshots ==
    /\ pc = "commit" /\ pc' = "idle"
    /\ ~call.full
    /\ last.ok /\ last.full
    /\ cur.feed = last.feed /\ cur.sys = last.sys

\* C3: rebuild(full=True) then rebuild(full=False) on identical upstream and
\* system snapshots: the second call returns 0 and leaves the four tables as
\* the first call left them.
C3_IncrementalIsNoOp ==
    [][SecondPassOnSameSnapshots =>
          (last'.count = 0 /\ Tables(db') = Tables(dbBefore))]_vars

\* C4: build_status is never committed as 'complete' while the system-package
\* writes of the pass in progress are not committed yet.
C4_CompleteOnlyAfterAllWrites ==
    pc \in {"repo", "commit"} => db.status # "complete"

\* C5: a rebuild that raised (here: in the system-package enumeration, the
\* step after the upstream ingest) leaves a committed build_status that is not
\* 'complete'.
C5_FailedPassNotComplete ==
    (Returned /\ ~last.ok /\ last.cause = "system") => db.status # "complete"

\* The running rebuild(full, download) raises in this step because the feed
\* fetch failed or the system package database could not be read
RaisesOnTransientFailure ==
    /\ pc # "idle" /\ pc' = "idle"
    /\ call.op = "rebuild"
    /\ ~last'.ok
    /\ last'.cause \in {"fetch", "system"}

\* C6: when the feed fetch fails or the system package database cannot be read
\* during rebuild(full, download), the committed content of the four tables
\* after the call equals their content before it.
C6_FailureLeavesStoreUntouched ==
    [][RaisesOnTransientFailure => Tables(db') = Tables(dbBefore)]_vars

\* A call of _ensure_database starts in this step
EnsureCalled ==
    /\ pc = "idle"
    /\ nops' = nops + 1
    /\ \/ call'.op = "ensure"
       \/ pc' = "idle" /\ last'.op = "ensure"

\* _ensure_database starts a full rebuild in this step
EnsureRebuilds == call'.op = "ensure" /\ call'.full /\ pc' # "idle"

\* C7: _ensure_database called right after an _ensure_database call that
\* returned normally finds the store valid: no rebuild, no write.
C7_EnsureTwiceRebuildsOnce ==
    [][(EnsureCalled /\ last.op = "ensure" /\ last.ok) =>
          (~EnsureRebuilds /\ pc' = "idle" /\ db' = db /\ aur_json' = aur_json)]_vars

\* Two _ensure_database calls in a row returned normally, the first one after
\* rebuilding a store that now holds packages
C7_Witness ==
    /\ pc = "idle" /\ last.op = "ensure" /\ last.ok /\ last.streak = 2
    /\ db.packages # {}

\* C8: _ensure_database performs a full rebuild if and only if the store file
\* is missing, its schema version differs from the expected one, its
\* build_status is not 'complete', or it cannot be read; otherwise it changes
\* nothing in the store.
C8_EnsureRebuildsIffInvalid ==
    [][EnsureCalled =>
          LET invalid == \/ ~db.file
                         \/ db.user_version # SCHEMA_VERSION
                         \/ db.status # "complete"
                         \/ db.corrupt \/ ~db.schema
          IN  /\ EnsureRebuilds <=> invalid
              /\ ~invalid => (pc' = "idle" /\ db' = db /\ aur_json' = aur_json)]_vars

\* _ensure_database has started a rebuild of a readable store of the right
\* schema version that an earlier failed rebuild left with a build_status
\* other than 'complete'
C8_Witness ==
    /\ call.op = "ensure" /\ pc = "download"
    /\ last.op = "rebuild" /\ ~last.ok
    /\ dbBefore.file /\ ~dbBefore.corrupt /\ dbBefore.schema
    /\ dbBefore.user_version = SCHEMA_VERSION
    /\ dbBefore.status # "complete"

----------------------------------------------------------------------------
(* PackageDB.connection(), used by several threads of one process *)

\* The operations of the store and how many times in a row each uses
\* connection(): _ensure_database checks the store and, after leaving the
\* with-block, calls rebuild; a resolution calls package_info and
\* get_package_dependencies one after the other; the others use it once
Operations ==
    { [op |-> "ensure", uses |-> 1], [op |-> "ensure", uses |-> 2],
      [op |-> "rebuild", uses |-> 1], [op |-> "search", uses |-> 1],
      [op |-> "package_info", uses |-> 1], [op |-> "resolve", uses |-> 2],
      [op |-> "enrich", uses |-> 1] }

\* A lock that stays held when the body raises
LockKeptOnRaise(t, raised) == IF raised THEN t ELSE 0

\* The holder of _db_lock after `with self._db_lock:` is left, by the end of
\* the body or by an exception
LockAfterBody(t, raised) == 0

\* An operation starts and reaches `with self._db_lock:`
StartOp(t, o) ==
    /\ tpc[t] = "idle"
    /\ tdone[t] < MaxThreadOps
    /\ tpc' = [tpc EXCEPT ![t] = "waiting"]
    /\ tleft' = [tleft EXCEPT ![t] = o.uses - 1]
    /\ UNCHANGED <<lock, conns, dirty, tdone>>

\* `with self._db_lock:` is entered
Acquire(t) ==
    /\ tpc[t] = "waiting"
    /\ lock = 0
    /\ lock' = t
    /\ tpc' = [tpc EXCEPT ![t] = "locked"]
    /\ UNCHANGED <<conns, dirty, tdone, tleft>>

\* conn = sqlite3.connect(self.db_path); the connection is yielded to the body
OpenConn(t) ==
    /\ tpc[t] = "locked"
    /\ conns' = conns \cup {t}
    /\ tpc' = [tpc EXCEPT ![t] = "body"]
    /\ UNCHANGED <<lock, dirty, tdone, tleft>>

\* sqlite3.connect raises: the with-block is left, conn is None, the error is
\* logged and raised again, the operation ends
ConnectRaises(t) ==
    /\ tpc[t] = "locked"
    /\ lock' = LockAfterBody(t, TRUE)
    /\ tpc' = [tpc EXCEPT ![t] = "idle"]
    /\ tdone' = [tdone EXCEPT ![t] = @ + 1]
    /\ tleft' = [tleft EXCEPT ![t] = 0]
    /\ UNCHANGED <<conns, dirty>>

\* the body executes a writing statement: sqlite3 opens a transaction
BodyWrite(t) ==
    /\ tpc[t] = "body"
    /\ t \notin dirty
    /\ dirty' = dirty \cup {t}
    /\ UNCHANGED <<lock, tpc, conns, tdone, tleft>>

\* the body calls conn.commit()
BodyCommit(t) ==
    /\ tpc[t] = "body"
    /\ t \in dirty
    /\ dirty' = dirty \ {t}
    /\ UNCHANGED <<lock, tpc, conns, tdone, tleft>>

\* the body ends by returning: the `with self._db_lock` block is left and
\* releases the lock; the connection is still open
LeaveLock(t) ==
    /\ tpc[t] = "body"
    /\ lock' = LockAfterBody(t, FALSE)
    /\ tpc' = [tpc EXCEPT ![t] = "finally"]
    /\ UNCHANGED <<conns, dirty, tdone, tleft>>

\* the body raises: the with-block is left by the exception, which ends the
\* operation after the finally clause
BodyRaises(t) ==
    /\ tpc[t] = "body"
    /\ lock' = LockAfterBody(t, TRUE)
    /\ tpc' = [tpc EXCEPT ![t] = "finally"]
    /\ tleft' = [tleft EXCEPT ![t] = 0]
    /\ UNCHANGED <<conns, dirty, tdone>>

\* finally: conn.close(), which rolls back what was not committed; the
\* operation goes on to its next use of connection() or ends
CloseConn(t) ==
    /\ tpc[t] = "finally"
    /\ conns' = conns \ {t}
    /\ dirty' = dirty \ {t}
    /\ IF tleft[t] > 0
       THEN /\ tpc' = [tpc EXCEPT ![t] = "waiting"]
            /\ tleft' = [tleft EXCEPT ![t] = @ - 1]
            /\ UNCHANGED tdone
       ELSE /\ tpc' = [tpc EXCEPT ![t] = "idle"]
            /\ tdone' = [tdone EXCEPT ![t] = @ + 1]
            /\ UNCHANGED tleft
    /\ UNCHANGED lock

\* A step of a thread leaves the other parts alone
Conn(A) == A /\ UNCHANGED <<syncVars, resVars, queryVars, appVars>>

InitConn == SyncIdle /\ ConnIdle /\ ResIdle /\ QueryIdle /\ AppIdle

NextConn ==
    \/ \E t \in Threads, o \in Operations : Conn(StartOp(t, o))
    \/ \E t \in Threads : Conn(Acquire(t))
    \/ \E t \in Threads : Conn(OpenConn(t))
    \/ \E t \in Threads : Conn(ConnectRaises(t))
    \/ \E t \in Threads : Conn(BodyWrite(t))
    \/ \E t \in Threads : Conn(BodyCommit(t))
    \/ \E t \in Threads : Conn(LeaveLock(t))
    \/ \E t \in Threads : Conn(BodyRaises(t))
    \/ \E t \in Threads : Conn(CloseConn(t))

SpecConn == InitConn /\ [][NextConn]_vars

\* Fair scheduling and terminating operations: a thread that can go on inside
\* an operation does, a body ends, and a thread waiting for _db_lock while the
\* lock is free again and again obtains it
\* The threads of the fair specification
FairThreads == 1..NFair

NextConnFair ==
    \/ \E t \in FairThreads, o \in Operations : Conn(StartOp(t, o))
    \/ \E t \in FairThreads : Conn(Acquire(t))
    \/ \E t \in FairThreads : Conn(OpenConn(t))
    \/ \E t \in FairThreads : Conn(ConnectRaises(t))
    \/ \E t \in FairThreads : Conn(BodyWrite(t))
    \/ \E t \in FairThreads : Conn(BodyCommit(t))
    \/ \E t \in FairThreads : Conn(LeaveLock(t))
    \/ \E t \in FairThreads : Conn(BodyRaises(t))
    \/ \E t \in FairThreads : Conn(CloseConn(t))

FairConn ==
    \A t \in FairThreads :
        /\ SF_vars(Conn(Acquire(t)))
        /\ WF_vars(Conn(OpenConn(t)) \/ Conn(ConnectRaises(t)))
        /\ WF_vars(Conn(LeaveLock(t)) \/ Conn(BodyRaises(t)))
        /\ WF_vars(Conn(CloseConn(t)))

SpecConnFair == InitConn /\ [][NextConnFair]_vars /\ FairConn

\* C31: every store operation releases the store lock when it ends, also when
\* it raises, and no operation requests the lock while it holds it (a thread
\* that is between operations, waiting, or past its with-block does not hold
\* the lock); so, with fair scheduling and terminating operations, every
\* thread waiting for the store eventually obtains it.
C31_WaitingThreadObtainsLock ==
    /\ [](\A t \in Threads : tpc[t] \in {"idle", "waiting", "finally"} => lock # t)
    /\ \A t \in FairThreads : (tpc[t] = "waiting") ~> (lock = t)

\* A thread waits for the lock while another one holds it inside a body with
\* an uncommitted transaction, after an earlier operation of the holder ended
C31_Witness ==
    \E t, u \in Threads :
        /\ t # u
        /\ tpc[t] = "waiting"
        /\ lock = u /\ tpc[u] = "body" /\ u \in dirty
        /\ tdone[u] >= 1

\* C9: the lifetimes of the connections of different operations (from connect
\* until close) never overlap: at most one connection is open at any time, and
\* none is opened while another is open or holds an uncommitted transaction.
C9_ConnectionsNeverOverlap ==
    /\ Cardinality(conns) <= 1
    /\ \A t \in Threads : tpc[t] = "locked" => (conns = {} /\ dirty = {})

----------------------------------------------------------------------------
(* Specification of the dependency resolver: Init draws the stored dependency
   graph, the installed packages and the request; the actions resolve *)

\* Lists of distinct names, at most MaxEdges long
DepLists ==
    { q \in UNION { [1..n -> AllNames] : n \in 0..MaxEdges } :
        \A i, j \in 1..Len(q) : i # j => q[i] # q[j] }

RECURSIVE SumLen(_, _)
SumLen(g, names) ==
    IF names = {} THEN 0
    ELSE LET n == CHOOSE x \in names : TRUE
         IN  Len(g[n]) + SumLen(g, names \ {n})

\* Stored dependency graphs with at most MaxEdges links in all
Graphs == { g \in [StoredNames -> DepLists] : SumLen(g, StoredNames) <= MaxEdges }

\* Nothing installed; or one stored package installed, which may provide the
\* virtual name "Z" or the name of another stored package
Installations ==
    {[installed |-> {}, provides |-> {}]}
    \cup { [installed |-> {n}, provides |-> {}] : n \in StoredNames }
    \cup { [installed |-> {n}, provides |-> {<<"Z", n>>}] : n \in StoredNames }
    \cup { [installed |-> {pr[2]}, provides |-> {pr}] :
              pr \in { q \in StoredNames \X StoredNames : q[1] # q[2] } }

\* Requests of one or two names
Requests == { <<a>> : a \in AllNames } \cup { <<a, b>> : a, b \in AllNames }

InitResolve ==
    /\ SyncIdle /\ ConnIdle /\ QueryIdle /\ AppIdle
    /\ stored = StoredNames
    /\ graph \in Graphs
    /\ \E i \in Installations :
          installed = i.installed /\ installed_provides = i.provides
    /\ request = <<>>
    /\ result = NoResult

Resolve(names, deep) ==
    /\ result.mode = "none"
    /\ request' = names
    /\ result' = ResolveTree(names, deep)
    /\ UNCHANGED <<graph, stored, installed, installed_provides>>

\* A step of the resolver leaves the other parts alone
Res(A) == A /\ UNCHANGED <<syncVars, connVars, queryVars, appVars>>

NextResolve ==
    \/ \E names \in Requests : Res(Resolve(names, FALSE))
    \/ \E names \in Requests : Res(Resolve(names, TRUE))

SpecResolve == InitResolve /\ [][NextResolve]_vars

\* The installed set and the provides map come from two reads of the local
\* database (_get_installed_packages, _get_installed_provides), each of which
\* gives {} when its read fails: the maps of Installations, and the maps whose
\* provider is missing from the installed set
AnyInstallations ==
    Installations
    \cup { [installed |-> {}, provides |-> {<<d, p>>}] :
              d \in StoredNames \cup {"Z"}, p \in StoredNames }

InitResolveAny ==
    /\ SyncIdle /\ ConnIdle /\ QueryIdle /\ AppIdle
    /\ stored = StoredNames
    /\ graph \in Graphs
    /\ \E i \in AnyInstallations :
          installed = i.installed /\ installed_provides = i.provides
    /\ request = <<>>
    /\ result = NoResult

SpecResolveAny == InitResolveAny /\ [][NextResolve]_vars

\* C29: for any stored dependency graph (cyclic ones included), any installed
\* set and any installed-provides map, shallow and deep resolution terminate
\* (they return a result, no exception ends them) and the traversal enters each
\* package name at most once; in deep mode a satisfied name is never recursed
\* into a second time.
C29_TerminatesEnteringEachNameOnce ==
    /\ ~result.raised
    /\ \A i, j \in 1..Len(result.entered) :
          i # j => result.entered[i] # result.entered[j]

\* The names reachable from S along the stored runtime-dependency links
RECURSIVE ReachInGraph(_)
ReachInGraph(S) ==
    LET T == S \cup UNION { { graph[n][i] : i \in 1..Len(graph[n]) } :
                              n \in S \cap DOMAIN graph }
    IN  IF T = S THEN S ELSE ReachInGraph(T)

\* order holds, once each, the stored packages reachable from the request
OrderIsReachableStored ==
    /\ ~result.raised
    /\ \A i, j \in 1..Len(result.order) : i # j => result.order[i] # result.order[j]
    /\ { result.order[i] : i \in 1..Len(result.order) }
          = ReachInGraph({ request[i] : i \in 1..Len(request) }) \cap stored

\* C32 as stated: with nothing installed, the returned order contains, exactly
\* once each, every stored package reachable from the requested names through
\* runtime-dependency edges, and nothing else, also when the reachable graph
\* has cycles; a dependency name without stored package is left out of order
\* without an error.
C32_OrderIsReachableSet ==
    (result.mode # "none" /\ installed = {} /\ installed_provides = {})
        => OrderIsReachableStored

\* C32, amended: the same, when every requested name has a stored package (a
\* requested name without one ends the resolution with an empty order).
C32_OrderIsReachableSetWhenAllFound ==
    (result.found /\ installed = {} /\ installed_provides = {})
        => OrderIsReachableStored

\* Nothing installed; B and A are on a cycle, B also depends on the unknown
\* name Z; C is not reachable: order is [B, A]
C32_Witness ==
    /\ result.found /\ result.mode = "shallow"
    /\ installed = {} /\ installed_provides = {}
    /\ request = <<"A">>
    /\ graph = [n \in StoredNames |->
                  IF n = "A" THEN <<"B">> ELSE IF n = "B" THEN <<"Z", "A">> ELSE <<>>]
    /\ result.order = <<"B", "A">>
    /\ result.cycles = << <<"A", "B">> >>

\* The stored runtime-dependency links of a name
Declared(a) == IF a \in DOMAIN graph THEN { graph[a][i] : i \in 1..Len(graph[a]) } ELSE {}

\* b is a declared dependency of a or, in deep mode, the installed provider of
\* one
Linked(mode, a, b) ==
    \/ b \in Declared(a)
    \/ mode = "deep" /\ \E pr \in installed_provides : pr[1] \in Declared(a) /\ pr[2] = b

\* The names reachable from S along such links
RECURSIVE ReachLinked(_, _)
ReachLinked(mode, S) ==
    LET T == S \cup { b \in AllNames : \E a \in S : Linked(mode, a, b) }
    IN  IF T = S THEN S ELSE ReachLinked(mode, T)

\* c is a cycle of the dependency graph
RealCycle(mode, c) ==
    /\ Len(c) >= 1
    /\ \A i, j \in 1..Len(c) : i # j => c[i] # c[j]
    /\ \A i \in 1..(Len(c) - 1) : Linked(mode, c[i], c[i + 1])
    /\ c[1] \in Declared(c[Len(c)])

\* No name reachable from the request reaches itself
ReachableAcyclic(mode) ==
    \A n \in ReachLinked(mode, { request[i] : i \in 1..Len(request) }) :
        n \notin ReachLinked(mode, { b \in AllNames : Linked(mode, n, b) })

\* C33: every list recorded in cycles is a real cycle of the dependency graph:
\* each consecutive pair of names is linked by a declared runtime dependency
\* (or, in deep mode, by a dependency satisfied through an installed
\* provider), the last name depends on the first, and no name occurs twice;
\* when the graph reachable from the requested names is acyclic, cycles is
\* empty.
C33_RecordedCyclesAreReal ==
    (result.mode # "none" /\ ~result.raised) =>
        /\ \A i \in 1..Len(result.cycles) : RealCycle(result.mode, result.cycles[i])
        /\ ReachableAcyclic(result.mode) => result.cycles = <<>>

\* A deep resolution recorded a cycle of two names whose first link is a
\* dependency satisfied through an installed provider
C33_Witness ==
    /\ result.found /\ result.mode = "deep"
    /\ \E i \in 1..Len(result.cycles) :
          /\ Len(result.cycles[i]) = 2
          /\ RealCycle("deep", result.cycles[i])
          /\ result.cycles[i][2] \notin Declared(result.cycles[i][1])

\* A line that lists the recorded names only
CycleLineBare(cycle) == cycle

\* The names of the line main prints for a cycle:
\* " -> ".join(cycle) + " -> " + cycle[0]
CycleLine(cycle) == Append(cycle, cycle[1])

\* The examinations for which a cycle was recorded, in the order of cycles
RecordedHits == SelectSeq(result.hits, LAMBDA h : h.recorded)

\* The stack names from the first occurrence of the repeated dependency
\* through the current package
StackSlice(h) ==
    LET first == CHOOSE i \in 1..Len(h.path) :
                    h.path[i] = h.dep /\ \A j \in 1..(i - 1) : h.path[j] # h.dep
    IN  [k \in 1..(Len(h.path) - first + 1) |-> h.path[first + k - 1]]

\* C38 as stated: a recorded cycle is the list of stack names from the first
\* occurrence of the repeated dependency through the current package, followed
\* by the repeated dependency's name again: for A -> B -> C -> A resolved from
\* A the recorded cycle is [A, B, C, A].
C38_CycleRecordedWithReturn ==
    (result.mode # "none" /\ ~result.raised) =>
        /\ Len(RecordedHits) = Len(result.cycles)
        /\ \A k \in 1..Len(result.cycles) :
              result.cycles[k] = Append(StackSlice(RecordedHits[k]), RecordedHits[k].dep)

\* C38, amended: a recorded cycle is the list of stack names from the first
\* occurrence of the repeated dependency through the current package, without
\* the return to the start; the line main prints for it ends with the repeated
\* dependency's name again: for A -> B -> C -> A resolved from A the recorded
\* cycle is [A, B, C] and the printed one A -> B -> C -> A.
C38_CycleRecordedPrintedWithReturn ==
    (result.mode # "none" /\ ~result.raised) =>
        /\ Len(RecordedHits) = Len(result.cycles)
        /\ \A k \in 1..Len(result.cycles) :
              /\ result.cycles[k] = StackSlice(RecordedHits[k])
              /\ CycleLine(result.cycles[k])
                    = Append(StackSlice(RecordedHits[k]), RecordedHits[k].dep)

\* A -> B -> C -> A resolved from A by the shallow policy
C38_Witness ==
    /\ result.mode = "shallow" /\ result.found
    /\ request = <<"A">>
    /\ graph = [n \in StoredNames |->
                  IF n = "A" THEN <<"B">> ELSE IF n = "B" THEN <<"C">> ELSE <<"A">>]
    /\ result.cycles = << <<"A", "B", "C">> >>
    /\ CycleLine(result.cycles[1]) = <<"A", "B", "C", "A">>
    /\ result.hits = << [dep |-> "A", path |-> <<"A", "B", "C">>,
                         recorded |-> TRUE, recursed |-> FALSE] >>

\* The two policies applied to the request of the state
ShallowResult == ResolveTree(request, FALSE)
DeepResult == ResolveTree(request, TRUE)

\* C34: for the same store content, installed set, installed-provides map and
\* requested names, every package in the order returned by shallow resolution
\* also appears in the order returned by deep resolution.
C34_ShallowOrderWithinDeepOrder ==
    result.mode # "none" =>
        LET sh == IF result.mode = "shallow" THEN result ELSE ShallowResult
            dp == IF result.mode = "deep" THEN result ELSE DeepResult
        IN  (~sh.raised /\ ~dp.raised) =>
                { sh.order[i] : i \in 1..Len(sh.order) }
                    \subseteq { dp.order[j] : j \in 1..Len(dp.order) }

\* The shallow order is not empty and the deep order has a package more
C34_Witness ==
    /\ result.found /\ result.mode = "deep" /\ ~result.raised
    /\ installed # {}
    /\ Len(result.order) >= 2
    /\ LET sh == ShallowResult
       IN  Len(sh.order) >= 1 /\ Len(result.order) > Len(sh.order)

\* C36: every name in the satisfied set returned by resolution is the name of
\* an installed package: a virtual dependency satisfied through a provider is
\* recorded under the installed provider's name, never under the virtual
\* name, so satisfied and order are disjoint.
C36_SatisfiedAreInstalled ==
    (result.mode # "none" /\ ~result.raised) =>
        /\ result.satisfied \subseteq installed
        /\ result.satisfied \cap { result.order[i] : i \in 1..Len(result.order) } = {}

\* A dependency that the installed packages satisfy
SatisfiedName(dep) == dep \in installed \/ HasProvider(dep)

\* C28 as stated: whenever a dependency being examined is on the DFS stack, a
\* cycle is recorded for it and it is not recursed into, whether or not it is
\* installed or provided by an installed package.
C28_CycleForEveryNameOnStack ==
    \A i \in 1..Len(result.hits) :
        result.hits[i].recorded /\ ~result.hits[i].recursed

\* C28, amended: a dependency that is on the DFS stack when it is examined is
\* never recursed into; a cycle is recorded for it exactly when it is neither
\* installed nor provided by an installed package (a satisfied dependency is
\* marked satisfied and skipped before the stack is looked at).
C28_CycleForUnsatisfiedNameOnStack ==
    \A i \in 1..Len(result.hits) :
        /\ ~result.hits[i].recursed
        /\ result.hits[i].recorded <=> ~SatisfiedName(result.hits[i].dep)

\* One resolution met an unsatisfied name on the stack (cycle recorded) and an
\* installed name on the stack (no cycle recorded)
C28_Witness ==
    /\ ~result.raised
    /\ \E i, j \in 1..Len(result.hits) :
          /\ result.hits[i].recorded /\ ~SatisfiedName(result.hits[i].dep)
          /\ ~result.hits[j].recorded /\ result.hits[j].dep \in installed
    /\ Len(result.cycles) >= 1

\* The names reachable from a set of names through stored runtime dependencies
RECURSIVE Reach(_)
Reach(S) ==
    LET T == S \cup UNION { Elems(GetPackageDependencies(n)) : n \in S }
    IN  IF T = S THEN S ELSE Reach(T)

\* n depends on itself, directly or transitively
OnCycle(n) == n \in Reach(Elems(GetPackageDependencies(n)))

\* c lists the members of a dependency cycle, each once, in dependency order
IsCycle(c) ==
    /\ Len(c) >= 1
    /\ \A i, j \in 1..Len(c) : i # j => c[i] # c[j]
    /\ \A i \in 1..Len(c) :
          c[(i % Len(c)) + 1] \in Elems(GetPackageDependencies(c[i]))

NoDuplicates(q) == \A i, j \in 1..Len(q) : i # j => q[i] # q[j]

\* A resolution was made with nothing installed and a dependency cycle is
\* reachable from the requested names
CycleRequested ==
    /\ result.mode # "none"
    /\ installed = {} /\ installed_provides = {}
    /\ \E n \in Reach(Elems(request)) : OnCycle(n)

\* The result reports a cycle reachable from the request, and order has no
\* package twice
CycleReported ==
    /\ \E i \in 1..Len(result.cycles) :
          /\ IsCycle(result.cycles[i])
          /\ Elems(result.cycles[i]) \subseteq Reach(Elems(request))
    /\ NoDuplicates(result.order)

\* C10 as stated: with nothing installed, whenever a dependency cycle is
\* reachable from the requested names, resolution (shallow and deep) returns a
\* cycles list containing a rotation of the members of a reachable cycle, and
\* order lists each package at most once.
C10_CycleAlwaysReported == CycleRequested => CycleReported

\* C10 as amended: the same, when every requested name has a stored package.
C10_CycleReportedWhenAllFound ==
    (CycleRequested /\ \A i \in 1..Len(request) : PackageInfo(request[i]))
        => CycleReported

\* A -> B -> C -> A resolved from A with nothing installed
C10_Witness ==
    /\ result.mode = "deep"
    /\ installed = {}
    /\ request = <<"A">>
    /\ graph = [n \in StoredNames |->
                  IF n = "A" THEN <<"B">> ELSE IF n = "B" THEN <<"C">> ELSE <<"A">>]
    /\ result.cycles = << <<"A", "B", "C">> >>
    /\ result.order = <<"C", "B", "A">>

----------------------------------------------------------------------------
(* Claims about the two traversal policies, checked under SpecResolve *)

\* A dependency that is met by the system: installed, or provided by an
\* installed package
Satisfied(d) == d \in installed \/ HasProvider(d)

\* The names reachable from a set of names without passing through a
\* satisfied dependency
RECURSIVE ReachUnsatisfied(_)
ReachUnsatisfied(S) ==
    LET T == S \cup UNION { { d \in Elems(GetPackageDependencies(n)) : ~Satisfied(d) } :
                              n \in S }
    IN  IF T = S THEN S ELSE ReachUnsatisfied(T)

\* Stored packages reachable from the requested names, but only through a
\* satisfied dependency
OnlyThroughSatisfied ==
    { p \in stored : /\ p \in Reach(Elems(request))
                      /\ p \notin ReachUnsatisfied(Elems(request)) }

\* C11: shallow resolution leaves out of order every package reachable only
\* through a satisfied dependency; deep resolution has every such package
\* that is not installed in order, and not the satisfied dependency itself.
C11_ShallowSkipsDeepExpands ==
    result.found =>
        /\ result.mode = "shallow" =>
              \A p \in OnlyThroughSatisfied : p \notin Elems(result.order)
        /\ result.mode = "deep" =>
              /\ \A p \in OnlyThroughSatisfied :
                    p \notin installed /\ ~HasProvider(p) => p \in Elems(result.order)
              /\ \A d \in Reach(Elems(request)) \ Elems(request) :
                    Satisfied(d) => d \notin Elems(result.order)

\* P declares a runtime dependency on D, and D does not depend on P
DependsOneWay(P, D) ==
    /\ D \in Elems(GetPackageDependencies(P))
    /\ P \notin Reach(Elems(GetPackageDependencies(D)))

\* In order, D stands before P
Before(order, D, P) ==
    \E i, j \in 1..Len(order) : i < j /\ order[i] = D /\ order[j] = P

\* C12 as stated: for every P and D in order where P declares a runtime
\* dependency on D and D does not depend on P, D appears before P; for one or
\* several requested names, in both policies.
C12_DependencyBeforeDependent ==
    result.found =>
        \A P, D \in Elems(result.order) :
            DependsOneWay(P, D) => Before(result.order, D, P)

\* What a package needs: its declared dependencies and, for a dependency an
\* installed package provides, that provider
Needs(n) ==
    Elems(GetPackageDependencies(n))
    \cup { Provider(d) : d \in { x \in Elems(GetPackageDependencies(n)) : HasProvider(x) } }

RECURSIVE ReachNeeds(_)
ReachNeeds(S) ==
    LET T == S \cup UNION { Needs(n) : n \in S }
    IN  IF T = S THEN S ELSE ReachNeeds(T)

\* C12 as amended: the same, for the dependencies D that no installed package
\* provides, where "D depends on P" also follows the installed providers of
\* dependencies.
C12_UnsatisfiedDependencyBefore ==
    result.found =>
        \A P, D \in Elems(result.order) :
            (/\ D \in Elems(GetPackageDependencies(P))
             /\ P \notin ReachNeeds(Needs(D))
             /\ ~HasProvider(D)) => Before(result.order, D, P)

\* Two names requested, the dependent first: the order still has the
\* dependency chain C, B, A
C12_Witness ==
    /\ result.found
    /\ request = <<"A", "C">>
    /\ installed = {} /\ installed_provides = {}
    /\ GetPackageDependencies("A") = <<"B">>
    /\ GetPackageDependencies("B") = <<"C">>
    /\ result.order = <<"C", "B", "A">>

\* C13: the returned order never contains a package whose name is in the
\* installed set, in either policy, and never the same name twice.
C13_OrderHasNoInstalledNoDuplicate ==
    result.mode # "none" =>
        /\ \A i \in 1..Len(result.order) : result.order[i] \notin installed
        /\ NoDuplicates(result.order)

\* An installed package was requested by name and traversed; only its
\* dependency is in order
C13_Witness ==
    /\ result.found
    /\ installed = {"B"}
    /\ request = <<"B">>
    /\ GetPackageDependencies("B") = <<"C">>
    /\ result.order = <<"C">>

\* C14: if one of the requested names has no stored package, resolution
\* (shallow or deep) returns empty order, cycles and satisfied and traverses
\* none of the requested names, whatever the other names and their position.
C14_UnknownNameAbortsResolution ==
    (result.mode # "none" /\ \E i \in 1..Len(request) : ~PackageInfo(request[i])) =>
        /\ result.order = <<>>
        /\ result.cycles = <<>>
        /\ result.satisfied = {}
        /\ result.visited = {}

\* A resolvable name with a dependency, requested before an unknown name
C14_Witness ==
    /\ result.mode = "deep"
    /\ request = <<"A", "Z">>
    /\ GetPackageDependencies("A") = <<"B">>
    /\ installed = {"B"}
    /\ result.order = <<>> /\ result.satisfied = {} /\ result.visited = {}

----------------------------------------------------------------------------
(* Further claims about the sync pipeline, checked under Spec *)

\* C15: after any full rebuild or incremental update, every stored non-upstream
\* package P with version V owns the Provides link "P=<V without epoch and
\* release>", and a provider lookup for "P=V" returns P.
C15_SelfProvide ==
    (Returned /\ last.ok) =>
        \A r \in db.packages :
            r.source # "aur" =>
                /\ <<r.name, r.source, "Provides", TargetV(r.name, CleanVersion(r.version))>>
                      \in DOMAIN db.links
                /\ Key(r) \in SearchByProvides(db, TargetV(r.name, r.version))

\* An incremental update changed the version of s in core from 1-1 to 1:2-1:
\* s owns "s=2" and no longer "s=1"
C15_Witness ==
    /\ Returned /\ last.ok /\ ~last.full /\ last.reversioned
    /\ \E r \in db.packages : r.name = "s" /\ r.source = "core" /\ r.version = V2
    /\ <<"s", "core", "Provides", TargetV("s", <<"2">>)>> \in DOMAIN db.links
    /\ <<"s", "core", "Provides", TargetV("s", <<"1">>)>> \notin DOMAIN db.links

\* The running rebuild commits and returns normally in this step
Returns == pc = "commit" /\ pc' = "idle" /\ call.op = "rebuild"

\* The system-package rows the pass wrote: the rows the connection holds that
\* the store committed after the upstream ingest does not
SystemRowsWritten == { r \in tx.packages : r.source # "aur" /\ r \notin db.packages }

\* C17: rebuild(full, download) returns the number of packages inserted or
\* updated by the pass across both sources: the upstream records it ingested
\* plus the system packages it wrote.
C17_ReturnsCountOfBothSources ==
    [][Returns => last'.count = cur.count + Cardinality(SystemRowsWritten)]_vars

\* The (name, version, source) triples of the stored system packages
StoredSystemTriples(t) ==
    { <<r.name, r.version, r.source>> : r \in { q \in t.packages : q.source # "aur" } }

\* C18: after an incremental system-package refresh completes, for any
\* enumerated set of system packages, of any size, the stored non-upstream
\* (name, version, source) triples are exactly the enumerated ones.
C18_StoredSystemSetIsEnumeratedSet ==
    (Returned /\ last.op = "rebuild" /\ last.ok /\ ~last.full) =>
        StoredSystemTriples(db) = { Triple(p) : p \in CurrentSystemPackages(last.sys[1]) }

\* The stored upstream row of a feed record, as a set (empty: none stored)
StoredAurRow(t, rec) == { r \in t.packages : r.source = "aur" /\ r.name = rec.Name }

\* The record has no stored upstream row, or differs from it in last-modified
\* timestamp, maintainer, out-of-date marker, vote count or co-maintainer set
DiffersFromStored(t, rec) ==
    \/ StoredAurRow(t, rec) = {}
    \/ \E r \in StoredAurRow(t, rec) :
          \/ rec.LastModified # r.last_modified
          \/ rec.Maintainer # r.maintainer
          \/ rec.OutOfDate # r.out_of_date
          \/ rec.NumVotes # r.num_votes
          \/ rec.CoMaintainers # r.comaintainers

\* The upstream refresh of the running call happens in this step
UpstreamRefresh == pc = "aur" /\ pc' = "repo"

\* C19: during upstream refresh a feed record is re-ingested if and only if it
\* has no stored upstream row or differs from it in one of the five compared
\* fields; every other record keeps its row, links and groups and is not
\* counted as updated.
C19_ReingestedIffChanged ==
    [][UpstreamRefresh =>
          /\ cur'.count =
                Cardinality({ rec \in aur_json.records : DiffersFromStored(tx, rec) })
          /\ \A rec \in aur_json.records :
                ~DiffersFromStored(tx, rec) =>
                    /\ StoredAurRow(tx', rec) = StoredAurRow(tx, rec)
                    /\ OwnedBy(tx'.links, <<rec.Name, "aur">>)
                          = OwnedBy(tx.links, <<rec.Name, "aur">>)
                    /\ OwnedBy(tx'.groups, <<rec.Name, "aur">>)
                          = OwnedBy(tx.groups, <<rec.Name, "aur">>)]_vars

\* C20: in every committed store state, also after an exception at any point
\* of a pass, a packages row is present together with exactly the links and
\* package_groups rows of the ingestion that wrote it.
C20_RowCommittedWithItsLinks ==
    Usable(db) =>
        \A r \in db.packages :
            /\ OwnedBy(db.links, Key(r)) = SetToBag(r.origin.links)
            /\ OwnedBy(db.groups, Key(r)) = SetToBag(r.origin.groups)

\* The content of the packages, links and package_groups tables and the
\* build status (rows without the history field)
Content(t) ==
    [packages |-> { [name |-> r.name, source |-> r.source, version |-> r.version,
                     last_modified |-> r.last_modified, maintainer |-> r.maintainer,
                     out_of_date |-> r.out_of_date, num_votes |-> r.num_votes,
                     comaintainers |-> r.comaintainers] : r \in t.packages },
     links |-> t.links, groups |-> t.groups, status |-> t.status]

\* What _rebuild leaves on the snapshots: schema recreated, upstream ingest,
\* system ingest
FullRebuildOf(feed, sys) ==
    IngestRepo(IngestAurFull(RecreateSchema(MissingStore), feed).store, sys)

\* C37: the content of the four tables after a successful rebuild(full=True)
\* is the one the upstream feed snapshot and the system-package enumeration of
\* the call determine, whatever the store held before the rebuild.
C37_FullRebuildIgnoresPriorStore ==
    [][(Returns /\ call.full) =>
          Content(db') = Content(FullRebuildOf(cur.feed[1], cur.sys[1]))]_vars

\* A full rebuild returned normally on a store that held a system package in
\* another version, and the tables are those of the call's snapshots
C37_Witness ==
    /\ Returned /\ last.ok /\ last.op = "rebuild" /\ last.full /\ last.reversioned
    /\ db.packages # {}
    /\ Content(db) = Content(FullRebuildOf(last.feed[1], last.sys[1]))

\* C26: for any prior valid store state and any new upstream and system
\* snapshots, rebuild(full=False) leaves the four tables with the content that
\* rebuild(full=True) on the same snapshots produces: same packages rows, same
\* links and group rows, none extra, none missing.
C26_IncrementalEqualsFull ==
    [][(Returns /\ ~call.full /\ ~RebuildRequired(dbBefore)) =>
          Content(db') = Content(FullRebuildOf(cur.feed[1], cur.sys[1]))]_vars

----------------------------------------------------------------------------
(* Specification of provider resolution: Init draws the store content, the
   action enriches the dependencies of a package *)

\* The packages rows a store may hold: a repository package r, an upstream
\* package u, and a package named v in a repository and upstream
QueryRows ==
    { [name |-> "r", source |-> "core"], [name |-> "u", source |-> "aur"],
      [name |-> "v", source |-> "extra"], [name |-> "v", source |-> "aur"] }

\* The links of a row: Replaces v and Provides v as chosen, and for a
\* repository package the self-identity Provides entry _prepare_link_data adds
LinksOf(row, kinds) ==
    { <<row.name, row.source, k, Target("v")>> : k \in kinds }
    \cup (IF row.source # "aur"
          THEN {<<row.name, row.source, "Provides", TargetV(row.name, <<"1">>)>>}
          ELSE {})

StoreContent(rows, kinds) ==
    [packages |-> rows,
     links |-> SetToBag(UNION { LinksOf(r, kinds[r]) : r \in rows })]

\* A package named v has no link to its own name other than that entry
QueryStores ==
    UNION { { StoreContent(rows, kinds) :
                kinds \in { f \in [rows -> SUBSET {"Replaces", "Provides"}] :
                               \A r \in rows : r.name = "v" => f[r] = {} } } :
            rows \in SUBSET QueryRows }

\* The packages whose dependencies are enriched
QueryPackages ==
    { [NoEnriched EXCEPT !.Depends = <<DepSpec("v", <<>>, FALSE)>>],
      [NoEnriched EXCEPT !.Depends = <<DepSpec("v", <<">=", "1">>, FALSE)>>,
                         !.OptDepends = <<DepSpec("w", <<>>, TRUE)>>],
      [NoEnriched EXCEPT !.MakeDepends = <<DepSpec("r", <<>>, FALSE),
                                           DepSpec("v", <<>>, FALSE)>>] }

\* Stores for search: r, u and v with the popularities drawn, v without a
\* vote count, the timestamps of r unset
Popularities == {Null, Num(1), Num(2)}

SearchStores ==
    { [packages |->
         { [name |-> "u", source |-> "aur", rowid |-> 1, popularity |-> pu,
            num_votes |-> Num(3), last_modified |-> Num(2), first_submitted |-> Num(1)],
           [name |-> "r", source |-> "core", rowid |-> 2, popularity |-> pr,
            num_votes |-> Num(1), last_modified |-> Null, first_submitted |-> Null],
           [name |-> "v", source |-> "aur", rowid |-> 3, popularity |-> pv,
            num_votes |-> Null, last_modified |-> Num(1), first_submitted |-> Num(2)] },
       links |-> EmptyBag] :
      pu \in Popularities, pr \in Popularities, pv \in Popularities }

\* Sort keys: those of the allow-list and others
SortKeys == valid_sort_columns \cup {"", "rowid", "Name", "name; DROP TABLE packages"}

\* db.search(sort_by=..., sort_reverse=..., limit=..., offset=...)
Search(sort_by, sort_reverse, limit, offset) ==
    /\ answer.fn = "none"
    /\ qdb \in SearchStores
    /\ query' = [sort_by |-> sort_by, sort_reverse |-> sort_reverse,
                 limit |-> limit, offset |-> offset]
    /\ answer' = [NoAnswer EXCEPT !.fn = "search",
                                   !.rows = search(qdb, sort_by, sort_reverse, limit, offset)]
    /\ UNCHANGED <<qdb, memo>>

\* The stored dependants of foo: d (upstream) and e (core), each with one
\* link of a dependency type to one of the targets
DependantTargets ==
    { Bare("foo"), DepSpec("foo", <<">=", "1.0">>, FALSE), DepSpec("foo", <<>>, TRUE),
      Bare("bar"), DepSpec("bar", <<"=", "1.0">>, FALSE), Bare("z") }

DependantStores ==
    { [packages |-> { [name |-> "foo", source |-> "aur"], [name |-> "d", source |-> "aur"],
                      [name |-> "e", source |-> "core"] },
       links |-> SetToBag({ <<"foo", "aur", "Provides", DepSpec("bar", <<"=", "1.0">>, FALSE)>>,
                            <<"d", "aur", k, td>>, <<"e", "core", "Depends", te>> })] :
      k \in DependencyTypes, td \in DependantTargets, te \in DependantTargets }

\* The Provides lists get_dependants is called with for foo
ProvidesLists == { {}, {DepSpec("bar", <<"=", "1.0">>, FALSE)}, {Bare("bar")} }

\* db.get_dependants(package["name"], package.get("Provides", []))
Dependants(name, provides) ==
    /\ answer.fn = "none"
    /\ query' = [name |-> name, provides |-> provides]
    /\ answer' = [NoAnswer EXCEPT !.fn = "dependants",
                                   !.dependants = get_dependants(qdb, name, provides)]
    /\ UNCHANGED <<qdb, memo>>

InitQuery ==
    /\ SyncIdle /\ ConnIdle /\ ResIdle /\ AppIdle
    /\ qdb \in QueryStores \cup DependantStores \cup SearchStores
    /\ query = NoPackage
    /\ answer = NoAnswer

Enrich(package) ==
    /\ answer.fn = "none"
    /\ query' = package
    /\ answer' = [NoAnswer EXCEPT !.fn = "enrich",
                                   !.enriched = get_enriched_dependencies(qdb, package)]
    /\ UNCHANGED <<qdb, memo>>

\* A query leaves the other parts alone
Query(A) == A /\ UNCHANGED <<syncVars, connVars, resVars, main, ui>>

NextQuery ==
    \/ \E package \in QueryPackages : Query(Enrich(package))
    \/ \E provides \in ProvidesLists : Query(Dependants("foo", provides))
    \/ \E sort_by \in SortKeys, sort_reverse \in BOOLEAN, limit \in {-1, 2}, offset \in {0, 1} :
          Query(Search(sort_by, sort_reverse, limit, offset))

SpecQuery == InitQuery /\ [][NextQuery]_vars

\* The entries returned for all dependency types
AllEntries ==
    UNION { { answer.enriched[k][i] : i \in 1..Len(answer.enriched[k]) } :
            k \in DOMAIN answer.enriched }

\* The repository packages that own a Provides link to the name
RepoProviders(dep) == { p \in Joined(qdb, "Provides", dep) : p.source # "aur" }

\* The upstream packages that own a Replaces link to the name
AurReplacers(dep) == { p \in Joined(qdb, "Replaces", dep) : p.source = "aur" }

\* C16: for every dependency name that a repository package provides, no
\* upstream candidate found through a Replaces link is among the returned
\* providers and the repository providers are, whatever other links the
\* repository provider has to that name.
C16_RepoProviderExcludesAurReplacer ==
    \A e \in AllEntries :
        RepoProviders(e.name) # {} =>
            /\ \A p \in AurReplacers(e.name) :
                  Key(p) \notin { Key(e.providers[i]) : i \in 1..Len(e.providers) }
            /\ \A p \in RepoProviders(e.name) :
                  Key(p) \in { Key(e.providers[i]) : i \in 1..Len(e.providers) }

----------------------------------------------------------------------------
(* Runs of the command-line entry point: cli.py main *)

\* The forms of the command line: the flag that asks for a sync pass, and
\* whether nothing else than that flag was given (len(active_flags) == 2)
CommandLines ==
    { [flag |-> "rebuild", only |-> TRUE],  [flag |-> "rebuild", only |-> FALSE],
      [flag |-> "update",  only |-> TRUE],  [flag |-> "update",  only |-> FALSE],
      [flag |-> "none",    only |-> FALSE] }

\* main is started with a command line
MainStart(cl) ==
    /\ main.at = "off"
    /\ pc = "idle"
    /\ nops < MaxOps
    /\ main' = [at |-> IF cl.flag = "none" THEN "ensure" ELSE "flag",
                flag |-> cl.flag, only |-> cl.only, compared |-> FALSE]
    /\ UNCHANGED syncVars

\* if args.rebuild: db.rebuild(full=True, download=True)
\* elif args.update: db.rebuild(full=False, download=True)
MainFlag ==
    /\ main.at = "flag"
    /\ RebuildStart(main.flag = "rebuild", TRUE)
    /\ main' = [main EXCEPT !.at = "flagged"]

\* the call returned, or raised and the exception was printed; main returns
\* when the flag was the only argument
MainAfterFlag ==
    /\ main.at = "flagged"
    /\ pc = "idle"
    /\ main' = IF main.only THEN NoMain ELSE [main EXCEPT !.at = "ensure"]
    /\ UNCHANGED syncVars

\* db._ensure_database() finds the store valid
MainEnsureValid ==
    /\ main.at = "ensure"
    /\ EnsureValid
    /\ main' = [main EXCEPT !.at = "query", !.compared = TRUE]

\* db._ensure_database() finds a rebuild required
MainEnsureRebuild ==
    /\ main.at = "ensure"
    /\ EnsureRebuild
    /\ main' = [main EXCEPT !.at = "ensuring", !.compared = TRUE]

\* the rebuild of _ensure_database returned; when it raised, so does main
MainAfterEnsure ==
    /\ main.at = "ensuring"
    /\ pc = "idle"
    /\ main' = IF last.ok THEN [main EXCEPT !.at = "query"] ELSE NoMain
    /\ UNCHANGED syncVars

\* the query the command line asked for (dependency tree, search, package
\* details, or the browser) reads the store; main returns
MainQuery ==
    /\ main.at = "query"
    /\ main' = NoMain
    /\ UNCHANGED syncVars

\* A step of main leaves the other parts alone
Cli(A) == A /\ UNCHANGED <<connVars, resVars, queryVars, memo, ui>>

\* Every pass main starts downloads the feed (download=True), so the steps
\* that read a feed file left by an earlier download are not among them
NextCli ==
    \/ \E cl \in CommandLines : Cli(MainStart(cl))
    \/ Cli(MainFlag)
    \/ Cli(MainAfterFlag)
    \/ Cli(MainEnsureValid)
    \/ Cli(MainEnsureRebuild)
    \/ Cli(MainAfterEnsure)
    \/ Cli(MainQuery)
    \/ Sync(DownloadOk)
    \/ Sync(DownloadFail)
    \/ Sync(ConnectFull)
    \/ Sync(ConnectUpdate)
    \/ Sync(ConnectCorrupt)
    \/ Sync(AurDecodeFail)
    \/ Sync(AurStoreFail)
    \/ Sync(AurIngest)
    \/ Sync(RepoFail)
    \/ Sync(RepoIngest)
    \/ Sync(Commit)

SpecCli == Init /\ [][NextCli]_vars

\* The store file holds a schema-version marker other than the expected one
Mismatched(s) == s.file /\ ~s.corrupt /\ s.user_version # SCHEMA_VERSION

\* The running sync pass opens its connection to the store in this step
PassOpensStore == pc = "connect" /\ pc' # "connect"

\* The running sync pass is an incremental update and starts writing
IncrementalStarts == pc = "connect" /\ ~call.full /\ pc' = "aur"

\* The query of the run reads the store in this step
QueryReads == main.at = "query" /\ main'.at = "off"

\* C21: in every run of the command-line entry point the schema-version
\* marker is compared with the expected version before any other read or write
\* of the store, and a mismatched store is fully rebuilt: no incremental update
\* and no query runs on it.
C21_VersionComparedFirst ==
    [][/\ (main.at # "off" /\ (PassOpensStore \/ QueryReads)) => main.compared
       /\ IncrementalStarts => ~Mismatched(db)
       /\ QueryReads => ~Mismatched(db)]_vars

----------------------------------------------------------------------------
(* Claims about the other queries, checked under SpecQuery *)

\* The entries get_dependants returned, under any key
ReturnedDependants == UNION { answer.dependants[k] : k \in DOMAIN answer.dependants }

\* The dependency links whose target, reduced to its bare name, is the package
\* name or one of its provided names (reduced to the bare name too)
LinksToPackage ==
    { l \in DOMAIN qdb.links :
        /\ l[3] \in DependencyTypes
        /\ Owner(l) \in Keys(qdb.packages)
        /\ BaseName(l[4]) \in {query.name} \cup { BaseName(p) : p \in query.provides } }

\* C22: get_dependants(name, provides) returns every dependency link (Depends,
\* MakeDepends, CheckDepends, OptDepends) whose target, reduced to its bare
\* name, equals the package name or one of its provided names, each with the
\* dependent's name, source and link type; also for provided names given with
\* a version and for targets carrying a constraint.
C22_DependantsByBareName ==
    answer.fn = "dependants" =>
        \A l \in LinksToPackage :
            [name |-> l[1], source |-> l[2], link_type |-> l[3]] \in ReturnedDependants

\* C25: search called with a sort key outside the allow-list returns the same
\* rows in the same order as the same call with sort key 'popularity', and
\* raises no error.
C25_UnknownSortKeyIsPopularity ==
    (answer.fn = "search" /\ query.sort_by \notin valid_sort_columns) =>
        /\ ~answer.raised
        /\ answer.rows = Statement(qdb, "popularity", query.sort_reverse,
                                   query.limit, query.offset)

\* An unknown key, descending, the second page of one row, on a store whose
\* popularity order (v, u, r) is neither the name order nor the order of storage
C25_Witness ==
    /\ answer.fn = "search"
    /\ query = [sort_by |-> "rowid", sort_reverse |-> TRUE, limit |-> 2, offset |-> 1]
    /\ \E ru, rr, rv \in qdb.packages :
          /\ ru.name = "u" /\ ru.popularity = Num(1)
          /\ rr.name = "r" /\ rr.popularity = Null
          /\ rv.name = "v" /\ rv.popularity = Num(2)
          /\ answer.rows = <<ru, rr>>

----------------------------------------------------------------------------
(* package_info between the sync passes of one process: one PackageDB object,
   one caller *)

\* The lookups made: an upstream name, a system name, without source, with
\* the source their row has, and with a source no row of the name has
LookupArguments ==
    { <<"a", Null>>, <<"a", <<"aur">>>>, <<"s", Null>>, <<"s", <<"core">>>>,
      <<"a", <<"core">>>>, <<"s", <<"aur">>>> }

\* db.package_info(name, source) is called while no sync pass runs. A call
\* that finds the arguments in the cache does not open the store; the others
\* connect (which creates a missing file) and raise sqlite3.Error on a store
\* that cannot be read or has no packages table
Lookup(name, source) ==
    /\ pc = "idle"
    /\ nops < MaxOps
    /\ nops' = nops + 1
    /\ query' = [name |-> name, source |-> source]
    /\ IF Memoized(<<name, source>>) \/ Usable(db)
       THEN LET r == package_info(db, name, source)
            IN  /\ answer' = [NoAnswer EXCEPT !.fn = "package_info", !.info = r.value,
                                              !.calls = answer.calls + 1]
                /\ memo' = r.cache
                /\ UNCHANGED <<db, tx, dbBefore>>
       ELSE /\ answer' = [NoAnswer EXCEPT !.fn = "package_info", !.raised = TRUE,
                                          !.calls = answer.calls + 1]
            /\ db' = Connect(db) /\ tx' = db' /\ dbBefore' = db'
            /\ UNCHANGED memo
    /\ UNCHANGED <<aur_json, pc, call, cur, last, qdb>>

\* A step of the process leaves the other parts alone
Proc(A) == A /\ UNCHANGED <<connVars, resVars, main, ui>>

\* A step of a sync pass leaves the lookups alone
Pass(A) == Proc(A /\ UNCHANGED <<queryVars, memo>>)

NextLookup ==
    \/ \E k \in LookupArguments : Proc(Lookup(k[1], k[2]))
    \/ \E full \in BOOLEAN, download \in BOOLEAN : Pass(RebuildStart(full, download))
    \/ Pass(EnsureValid)
    \/ Pass(EnsureRebuild)
    \/ Pass(DownloadOk)
    \/ Pass(DownloadFail)
    \/ Pass(ConnectFull)
    \/ Pass(ConnectUpdate)
    \/ Pass(ConnectCorrupt)
    \/ Pass(AurFetchFail)
    \/ Pass(AurFetchOk)
    \/ Pass(AurDecodeFail)
    \/ Pass(AurStoreFail)
    \/ Pass(AurIngest)
    \/ Pass(RepoFail)
    \/ Pass(RepoIngest)
    \/ Pass(Commit)

SpecLookup == Init /\ [][NextLookup]_vars

\* A package_info call returns a value in this step
LookupReturns == answer'.calls = answer.calls + 1 /\ ~answer'.raised

\* The stored rows of a name
RowsNamed(t, name) == { r \in t.packages : r.name = name }

\* C23: package_info(name) with the source omitted returns the upstream row
\* when one exists for that name, otherwise some stored row for that name, and
\* not-found only when no row of any source has that name.
C23_PrefersUpstreamRow ==
    [][(LookupReturns /\ query'.source = Null) =>
          LET rows == RowsNamed(db, query'.name)
              aur  == { r \in rows : r.source = "aur" }
          IN  /\ aur # {} => (answer'.info # Null /\ answer'.info[1].row \in aur)
              /\ (aur = {} /\ rows # {}) =>
                    (answer'.info # Null /\ answer'.info[1].row \in rows)
              /\ answer'.info = Null => rows = {}]_vars

\* C35: package_info(name, source) called with an explicit source returns
\* either a record whose source equals the requested source or not-found; it
\* never returns the record of a different source for that name.
C35_ExplicitSourceIsRespected ==
    (answer.fn = "package_info" /\ ~answer.raised /\ query.source # Null) =>
        \/ answer.info = Null
        \/ answer.info[1].row.source = query.source[1]

\* C27: after a sync pass changed or deleted the stored row for (name, source),
\* a later package_info(name, source) call of the same process returns the
\* record as now stored, or not-found: never a record memoized before the write.
C27_NoStaleRecord ==
    [][(LookupReturns /\ query'.source # Null) =>
          answer'.info = PackageInfoBody(db, query'.name, query'.source)]_vars

----------------------------------------------------------------------------
(* Sync passes over upstream snapshots that hold records with null fields *)

NextIngest ==
    \/ \E full \in BOOLEAN, download \in BOOLEAN : Sync(RebuildStart(full, download))
    \/ Sync(Download(DefaultedFeeds))
    \/ Sync(DownloadFail)
    \/ Sync(ConnectFull)
    \/ Sync(ConnectUpdate)
    \/ Sync(ConnectCorrupt)
    \/ Sync(AurFetchFail)
    \/ Sync(AurFetch(DefaultedFeeds))
    \/ Sync(AurDecodeFail)
    \/ Sync(AurStoreFail)
    \/ Sync(AurIngest)
    \/ Sync(AurRecordFail)
    \/ Sync(RepoFail)
    \/ Sync(RepoIngest)
    \/ Sync(Commit)

SpecIngest == Init /\ [][NextIngest]_vars

\* The upstream ingest of the running pass ends in this step with the
\* exception a record raised
RecordAborts == pc = "aur" /\ pc' = "idle" /\ last'.cause = "record"

\* C24: a feed record with absent or null fields is ingested with those
\* fields defaulted and never aborts the ingest of the whole feed: every record
\* of the feed is stored and committed by the upstream ingest, on a first
\* ingest and on a later incremental pass.
C24_NullFieldsNeverAbort ==
    [][/\ ~RecordAborts
       /\ UpstreamRefresh =>
             \A rec \in aur_json.records : StoredAurRow(db', rec) # {}]_vars

----------------------------------------------------------------------------
(* Specification of the browser's details pane: the user moves the cursor over
   the rows of the package table (the packages are loaded, provide_db is set);
   each highlight shows the package and arms a timer, the timer starts a
   worker thread, the worker ends by updating the pane *)

\* The packages behind the rows of the table
Rows == {"P1", "P2", "P3"}

\* on_data_table_row_highlighted / on_row_highlighted_main_table for a row
\* with a package: the armed timer is stopped, the pane shows the package
\* without enriched dependencies, a new timer captures the package
RowHighlighted(p) ==
    /\ ui.count < MaxHighlights
    /\ p # ui.highlighted
    /\ ui' = [ui EXCEPT !.highlighted = p, !.timer = p, !.pane = <<p, FALSE>>,
                        !.count = @ + 1]

\* The timer fires after DEP_RESOLVE_DELAY: resolve_package_dependencies is
\* called; work(exclusive=True) marks the workers of the group cancelled and
\* starts a new thread, a running thread goes on until its function returns
TimerFires ==
    /\ ui.timer # "none"
    /\ ui' = [ui EXCEPT
                !.timer = "none",
                !.workers = Append([i \in 1..Len(@) |-> [@[i] EXCEPT !.cancelled = TRUE]],
                                   [pkg |-> ui.timer, cancelled |-> FALSE])]

\* A sequence without its i-th element
Without(q, i) == [j \in 1..(Len(q) - 1) |-> IF j < i THEN q[j] ELSE q[j + 1]]

\* The end of resolve_package_dependencies: the providers are found and
\* call_from_thread runs details_pane.update_package(package=package_data,
\* enriched_dependencies=enriched_deps); nothing on the way reads the
\* worker's cancelled flag
WorkerApplies(i) ==
    /\ i \in 1..Len(ui.workers)
    /\ ui' = [ui EXCEPT !.workers = Without(@, i),
                        !.pane = <<ui.workers[i].pkg, TRUE>>]

\* A step of the browser leaves the other parts alone
Pane(A) == A /\ UNCHANGED <<syncVars, connVars, resVars, queryVars, main, memo>>

NextPane ==
    \/ \E p \in Rows : Pane(RowHighlighted(p))
    \/ Pane(TimerFires)
    \/ \E i \in 1..MaxHighlights : Pane(WorkerApplies(i))

SpecPane == Init /\ [][NextPane]_vars

\* C30: when the user highlights P1 and then P2, the details pane never ends
\* up showing the enriched dependency result of P1 after P2 was highlighted: a
\* resolution in flight for an older selection does not apply its result over
\* the newer request, so the enriched result shown is that of the highlighted
\* row.
C30_NoStaleEnrichedResult ==
    ui.pane[2] => ui.pane[1] = ui.highlighted

====
